---------------------------- MODULE Spec2Model ----------------------------
(***************************************************************************)
(* Model of server/routes.ts: the two Excel endpoints                      *)
(*   POST /api/excel/process  (upload of files, one output sheet per       *)
(*                             in-file sheet, flat re-numbering)           *)
(*   POST /api/excel/create   (JSON payload, grouped re-numbering)         *)
(* with the helpers getBilingualHeader, isChinese, groupAndSortByID and    *)
(* formatWorksheet.                                                        *)
(*                                                                         *)
(* Text is modelled as JavaScript holds it: a sequence of UTF-16 code       *)
(* units (a character of the Basic Multilingual Plane is one unit, any     *)
(* other a surrogate pair), so that length, toLowerCase, includes,         *)
(* indexOf, trim, the CJK test, JSON.stringify and JSON.parse are computed *)
(* on text as the code computes them.                                      *)
(***************************************************************************)
EXTENDS Integers, Sequences, FiniteSets, Bags, TLC

VARIABLES
    endpoint,     \* "create" or "process": the route that serves the request
    req,          \* the request: JSON body (create) or files + sheetNames (process)
    pc,           \* position of the handler
    workbook,     \* the request's ExcelJS workbook: sequence of worksheets
    idx,          \* loop position: <<fileIndex, sheet index>> (process), sheet index (create)
    naming,       \* locals of the rename loop: newSheetName, finalSheetName, counter
    grp,          \* result of the last groupAndSortByID call (create)
    lastAdd,      \* what the last sheet addition asked for and got
    response,     \* the HTTP response: status and whether spreadsheet bytes were sent
    outputBuffer, \* how the awaited workbook.xlsx.writeBuffer() settled: "none" before
                  \* it has, "bytes" when it resolved, "rejected" when it rejected
    dictionary,   \* the module-level object BILINGUAL_HEADERS, shared by all requests
    server        \* the requests served at the same time, the workbooks of their
                  \* handlers and the responses given (SpecConcurrent)

vars == <<endpoint, req, pc, workbook, idx, naming, grp, lastAdd, response, outputBuffer,
          dictionary, server>>

---------------------------------------------------------------------------
(* Bounds of the model *)

\* longest row list of one JSON sheet definition
MaxRows == 3
\* most data rows of an uploaded grid
MaxGridRows == 2
\* most sheet definitions of a multi-sheet JSON payload
MaxSheetDefs == 2
\* most uploaded files of one request
MaxFiles == 3
\* longest header text handed to getBilingualHeader on its own
MaxHeaderLen == 2
\* the requests served at the same time
MaxRequests == 2

---------------------------------------------------------------------------
(* Text: sequences of code points *)

\* 'ID'
S_ID ==
    <<73, 68>>
\* 'STT\n\u5e8f\u865f'
S_STT_LABEL ==
    <<83, 84, 84, 10, 24207, 34399>>
\* 'N\u1ed9i dung quy \u0111\u1ecbnh'
S_NoiDung ==
    <<78, 7897, 105, 32, 100, 117, 110, 103, 32, 113, 117, 121, 32, 273, 7883, 110, 104>>
\* 'N\u1ed9i dung quy \u0111\u1ecbnh\n\u898f\u5b9a\u5167\u5bb9'
S_NoiDungBi ==
    <<78, 7897, 105, 32, 100, 117, 110, 103, 32, 113, 117, 121, 32, 273, 7883, 110, 104, 10, 35215, 23450, 20839, 23481>>
\* 'Quy \u0111\u1ecbnh c\u0169'
S_QuyDinhCu ==
    <<81, 117, 121, 32, 273, 7883, 110, 104, 32, 99, 361>>
\* 'Quy \u0111\u1ecbnh c\u0169\n\u820a\u898f\u5b9a'
S_QuyDinhCuBi ==
    <<81, 117, 121, 32, 273, 7883, 110, 104, 32, 99, 361, 10, 33290, 35215, 23450>>
\* 'Quy \u0111\u1ecbnh m\u1edbi'
S_QuyDinhMoi ==
    <<81, 117, 121, 32, 273, 7883, 110, 104, 32, 109, 7899, 105>>
\* 'Quy \u0111\u1ecbnh m\u1edbi\n\u65b0\u898f\u5b9a'
S_QuyDinhMoiBi ==
    <<81, 117, 121, 32, 273, 7883, 110, 104, 32, 109, 7899, 105, 10, 26032, 35215, 23450>>
\* 'Thay \u0111\u1ed5i'
S_ThayDoi ==
    <<84, 104, 97, 121, 32, 273, 7893, 105>>
\* 'Thay \u0111\u1ed5i\n\u8b8a\u66f4'
S_ThayDoiBi ==
    <<84, 104, 97, 121, 32, 273, 7893, 105, 10, 35722, 26356>>
\* 'C\u0103n c\u1ee9 ph\xe1p l\xfd c\u0169'
S_CanCuCu ==
    <<67, 259, 110, 32, 99, 7913, 32, 112, 104, 225, 112, 32, 108, 253, 32, 99, 361>>
\* 'C\u0103n c\u1ee9 ph\xe1p l\xfd c\u0169\n\u820a\u6cd5\u5f8b\u4f9d\u64da'
S_CanCuCuBi ==
    <<67, 259, 110, 32, 99, 7913, 32, 112, 104, 225, 112, 32, 108, 253, 32, 99, 361, 10, 33290, 27861, 24459, 20381, 25818>>
\* 'C\u0103n c\u1ee9 ph\xe1p l\xfd m\u1edbi'
S_CanCuMoi ==
    <<67, 259, 110, 32, 99, 7913, 32, 112, 104, 225, 112, 32, 108, 253, 32, 109, 7899, 105>>
\* 'C\u0103n c\u1ee9 ph\xe1p l\xfd m\u1edbi\n\u65b0\u6cd5\u5f8b\u4f9d\u64da'
S_CanCuMoiBi ==
    <<67, 259, 110, 32, 99, 7913, 32, 112, 104, 225, 112, 32, 108, 253, 32, 109, 7899, 105, 10, 26032, 27861, 24459, 20381, 25818>>
\* 'id'
S_id ==
    <<105, 100>>
\* 'stt'
S_stt ==
    <<115, 116, 116>>
\* '\u5e8f\u865f'
S_xuhao ==
    <<24207, 34399>>
\* 'http'
S_http ==
    <<104, 116, 116, 112>>
\* 'no'
S_no ==
    <<110, 111>>
\* 's\u1ed1 th\u1ee9 t\u1ef1'
S_sothutu ==
    <<115, 7889, 32, 116, 104, 7913, 32, 116, 7921>>
\* 'Sheet'
S_Sheet ==
    <<83, 104, 101, 101, 116>>
\* 'Sheet1'
S_Sheet1 ==
    <<83, 104, 101, 101, 116, 49>>
\* '[object Object]'
S_ObjectObject ==
    <<91, 111, 98, 106, 101, 99, 116, 32, 79, 98, 106, 101, 99, 116, 93>>
\* 'null'
S_null ==
    <<110, 117, 108, 108>>
\* 'true'
S_true ==
    <<116, 114, 117, 101>>
\* 'false'
S_false ==
    <<102, 97, 108, 115, 101>>
\* 'History'
S_History ==
    <<72, 105, 115, 116, 111, 114, 121>>
\* 'Name'
S_Name ==
    <<78, 97, 109, 101>>
\* 'A'
S_A ==
    <<65>>
\* 'B'
S_B ==
    <<66>>
\* '\u7532'
S_Jia ==
    <<30002>>
\* 'STT'
S_STT ==
    <<83, 84, 84>>
\* 'No'
S_No ==
    <<78, 111>>
\* 'Video'
S_Video ==
    <<86, 105, 100, 101, 111>>
\* 'S\u1ed1 th\u1ee9 t\u1ef1'
S_SoThuTu ==
    <<83, 7889, 32, 116, 104, 7913, 32, 116, 7921>>
\* 'Link'
S_Link ==
    <<76, 105, 110, 107>>
\* 'a'
S_a ==
    <<97>>
\* 'b'
S_b ==
    <<98>>
\* 'D http://e'
S_DecreeLink ==
    <<68, 32, 104, 116, 116, 112, 58, 47, 47, 101>>
\* 'http://e'
S_BareLink ==
    <<104, 116, 116, 112, 58, 47, 47, 101>>
\* ' http://e'
S_SpaceLink ==
    <<32, 104, 116, 116, 112, 58, 47, 47, 101>>
\* 'X'
S_X ==
    <<88>>
\* 'x'
S_x ==
    <<120>>
\* 'X_1'
S_X_1 ==
    <<88, 95, 49>>
\* 'X.xlsx'
S_XFile ==
    <<88, 46, 120, 108, 115, 120>>
\* 'x.xls'
S_xFile ==
    <<120, 46, 120, 108, 115>>
\* 'S'
S_S ==
    <<83>>

\* 'constructor'
S_constructor ==
    <<99, 111, 110, 115, 116, 114, 117, 99, 116, 111, 114>>
\* 'toString'
S_toString ==
    <<116, 111, 83, 116, 114, 105, 110, 103>>
\* 'toLocaleString'
S_toLocaleString ==
    <<116, 111, 76, 111, 99, 97, 108, 101, 83, 116, 114, 105, 110, 103>>
\* 'valueOf'
S_valueOf ==
    <<118, 97, 108, 117, 101, 79, 102>>
\* 'hasOwnProperty'
S_hasOwnProperty ==
    <<104, 97, 115, 79, 119, 110, 80, 114, 111, 112, 101, 114, 116, 121>>
\* 'isPrototypeOf'
S_isPrototypeOf ==
    <<105, 115, 80, 114, 111, 116, 111, 116, 121, 112, 101, 79, 102>>
\* 'propertyIsEnumerable'
S_propertyIsEnumerable ==
    <<112, 114, 111, 112, 101, 114, 116, 121, 73, 115, 69, 110, 117, 109, 101, 114, 97, 98, 108, 101>>
\* '__defineGetter__'
S_defineGetter ==
    <<95, 95, 100, 101, 102, 105, 110, 101, 71, 101, 116, 116, 101, 114, 95, 95>>
\* '__defineSetter__'
S_defineSetter ==
    <<95, 95, 100, 101, 102, 105, 110, 101, 83, 101, 116, 116, 101, 114, 95, 95>>
\* '__lookupGetter__'
S_lookupGetter ==
    <<95, 95, 108, 111, 111, 107, 117, 112, 71, 101, 116, 116, 101, 114, 95, 95>>
\* '__lookupSetter__'
S_lookupSetter ==
    <<95, 95, 108, 111, 111, 107, 117, 112, 83, 101, 116, 116, 101, 114, 95, 95>>
\* '__proto__'
S_proto ==
    <<95, 95, 112, 114, 111, 116, 111, 95, 95>>

\* 'sheets'
S_sheets ==
    <<115, 104, 101, 101, 116, 115>>
\* 'name'
S_name ==
    <<110, 97, 109, 101>>
\* 'data'
S_data ==
    <<100, 97, 116, 97>>
\* 'oops'
S_oops ==
    <<111, 111, 112, 115>>
\* 'length'
S_length ==
    <<108, 101, 110, 103, 116, 104>>
\* 'Array'
S_Array ==
    <<65, 114, 114, 97, 121>>
\* 'String'
S_String ==
    <<83, 116, 114, 105, 110, 103>>
\* 'Number'
S_Number ==
    <<78, 117, 109, 98, 101, 114>>
\* 'Boolean'
S_Boolean ==
    <<66, 111, 111, 108, 101, 97, 110>>
\* 'trimStart'
S_trimStart ==
    <<116, 114, 105, 109, 83, 116, 97, 114, 116>>
\* 'trimEnd'
S_trimEnd ==
    <<116, 114, 105, 109, 69, 110, 100>>
\* 'trimLeft'
S_trimLeft ==
    <<116, 114, 105, 109, 76, 101, 102, 116>>
\* 'trimRight'
S_trimRight ==
    <<116, 114, 105, 109, 82, 105, 103, 104, 116>>
\* 'abc'
S_abc ==
    <<97, 98, 99>>

\* the simple lower-case mappings of the Unicode Character Database (17.0):
\* <<a, b, step, d>> maps the code points a, a + step, ..., b to themselves + d
LowerRanges ==
    << <<65, 90, 1, 32>>, <<192, 214, 1, 32>>, <<216, 222, 1, 32>>, <<256, 302, 2, 1>>,
       <<306, 310, 2, 1>>, <<313, 327, 2, 1>>, <<330, 374, 2, 1>>, <<376, 376, 1, -121>>,
       <<377, 381, 2, 1>>, <<385, 385, 1, 210>>, <<386, 388, 2, 1>>, <<390, 390, 1, 206>>,
       <<391, 391, 1, 1>>, <<393, 394, 1, 205>>, <<395, 395, 1, 1>>, <<398, 398, 1, 79>>,
       <<399, 399, 1, 202>>, <<400, 400, 1, 203>>, <<401, 401, 1, 1>>, <<403, 403, 1, 205>>,
       <<404, 404, 1, 207>>, <<406, 406, 1, 211>>, <<407, 407, 1, 209>>, <<408, 408, 1, 1>>,
       <<412, 412, 1, 211>>, <<413, 413, 1, 213>>, <<415, 415, 1, 214>>, <<416, 420, 2, 1>>,
       <<422, 422, 1, 218>>, <<423, 423, 1, 1>>, <<425, 425, 1, 218>>, <<428, 428, 1, 1>>,
       <<430, 430, 1, 218>>, <<431, 431, 1, 1>>, <<433, 434, 1, 217>>, <<435, 437, 2, 1>>,
       <<439, 439, 1, 219>>, <<440, 440, 1, 1>>, <<444, 444, 1, 1>>, <<452, 452, 1, 2>>,
       <<453, 453, 1, 1>>, <<455, 455, 1, 2>>, <<456, 456, 1, 1>>, <<458, 458, 1, 2>>,
       <<459, 475, 2, 1>>, <<478, 494, 2, 1>>, <<497, 497, 1, 2>>, <<498, 500, 2, 1>>,
       <<502, 502, 1, -97>>, <<503, 503, 1, -56>>, <<504, 542, 2, 1>>, <<544, 544, 1, -130>>,
       <<546, 562, 2, 1>>, <<570, 570, 1, 10795>>, <<571, 571, 1, 1>>, <<573, 573, 1, -163>>,
       <<574, 574, 1, 10792>>, <<577, 577, 1, 1>>, <<579, 579, 1, -195>>, <<580, 580, 1, 69>>,
       <<581, 581, 1, 71>>, <<582, 590, 2, 1>>, <<880, 882, 2, 1>>, <<886, 886, 1, 1>>,
       <<895, 895, 1, 116>>, <<902, 902, 1, 38>>, <<904, 906, 1, 37>>, <<908, 908, 1, 64>>,
       <<910, 911, 1, 63>>, <<913, 929, 1, 32>>, <<931, 939, 1, 32>>, <<975, 975, 1, 8>>,
       <<984, 1006, 2, 1>>, <<1012, 1012, 1, -60>>, <<1015, 1015, 1, 1>>,
       <<1017, 1017, 1, -7>>, <<1018, 1018, 1, 1>>, <<1021, 1023, 1, -130>>,
       <<1024, 1039, 1, 80>>, <<1040, 1071, 1, 32>>, <<1120, 1152, 2, 1>>,
       <<1162, 1214, 2, 1>>, <<1216, 1216, 1, 15>>, <<1217, 1229, 2, 1>>, <<1232, 1326, 2, 1>>,
       <<1329, 1366, 1, 48>>, <<4256, 4293, 1, 7264>>, <<4295, 4295, 1, 7264>>,
       <<4301, 4301, 1, 7264>>, <<5024, 5103, 1, 38864>>, <<5104, 5109, 1, 8>>,
       <<7305, 7305, 1, 1>>, <<7312, 7354, 1, -3008>>, <<7357, 7359, 1, -3008>>,
       <<7680, 7828, 2, 1>>, <<7838, 7838, 1, -7615>>, <<7840, 7934, 2, 1>>,
       <<7944, 7951, 1, -8>>, <<7960, 7965, 1, -8>>, <<7976, 7983, 1, -8>>,
       <<7992, 7999, 1, -8>>, <<8008, 8013, 1, -8>>, <<8025, 8031, 2, -8>>,
       <<8040, 8047, 1, -8>>, <<8072, 8079, 1, -8>>, <<8088, 8095, 1, -8>>,
       <<8104, 8111, 1, -8>>, <<8120, 8121, 1, -8>>, <<8122, 8123, 1, -74>>,
       <<8124, 8124, 1, -9>>, <<8136, 8139, 1, -86>>, <<8140, 8140, 1, -9>>,
       <<8152, 8153, 1, -8>>, <<8154, 8155, 1, -100>>, <<8168, 8169, 1, -8>>,
       <<8170, 8171, 1, -112>>, <<8172, 8172, 1, -7>>, <<8184, 8185, 1, -128>>,
       <<8186, 8187, 1, -126>>, <<8188, 8188, 1, -9>>, <<8486, 8486, 1, -7517>>,
       <<8490, 8490, 1, -8383>>, <<8491, 8491, 1, -8262>>, <<8498, 8498, 1, 28>>,
       <<8544, 8559, 1, 16>>, <<8579, 8579, 1, 1>>, <<9398, 9423, 1, 26>>,
       <<11264, 11311, 1, 48>>, <<11360, 11360, 1, 1>>, <<11362, 11362, 1, -10743>>,
       <<11363, 11363, 1, -3814>>, <<11364, 11364, 1, -10727>>, <<11367, 11371, 2, 1>>,
       <<11373, 11373, 1, -10780>>, <<11374, 11374, 1, -10749>>, <<11375, 11375, 1, -10783>>,
       <<11376, 11376, 1, -10782>>, <<11378, 11378, 1, 1>>, <<11381, 11381, 1, 1>>,
       <<11390, 11391, 1, -10815>>, <<11392, 11490, 2, 1>>, <<11499, 11501, 2, 1>>,
       <<11506, 11506, 1, 1>>, <<42560, 42604, 2, 1>>, <<42624, 42650, 2, 1>>,
       <<42786, 42798, 2, 1>>, <<42802, 42862, 2, 1>>, <<42873, 42875, 2, 1>>,
       <<42877, 42877, 1, -35332>>, <<42878, 42886, 2, 1>>, <<42891, 42891, 1, 1>>,
       <<42893, 42893, 1, -42280>>, <<42896, 42898, 2, 1>>, <<42902, 42920, 2, 1>>,
       <<42922, 42922, 1, -42308>>, <<42923, 42923, 1, -42319>>, <<42924, 42924, 1, -42315>>,
       <<42925, 42925, 1, -42305>>, <<42926, 42926, 1, -42308>>, <<42928, 42928, 1, -42258>>,
       <<42929, 42929, 1, -42282>>, <<42930, 42930, 1, -42261>>, <<42931, 42931, 1, 928>>,
       <<42932, 42946, 2, 1>>, <<42948, 42948, 1, -48>>, <<42949, 42949, 1, -42307>>,
       <<42950, 42950, 1, -35384>>, <<42951, 42953, 2, 1>>, <<42955, 42955, 1, -42343>>,
       <<42956, 42970, 2, 1>>, <<42972, 42972, 1, -42561>>, <<42997, 42997, 1, 1>>,
       <<65313, 65338, 1, 32>>, <<66560, 66599, 1, 40>>, <<66736, 66771, 1, 40>>,
       <<66928, 66938, 1, 39>>, <<66940, 66954, 1, 39>>, <<66956, 66962, 1, 39>>,
       <<66964, 66965, 1, 39>>, <<68736, 68786, 1, 64>>, <<68944, 68965, 1, 32>>,
       <<71840, 71871, 1, 32>>, <<93760, 93791, 1, 32>>, <<93856, 93880, 1, 27>>,
       <<125184, 125217, 1, 34>> >>

\* the code points with the property Case_Ignorable: <<a, b>> is a..b
CaseIgnorableRanges ==
    << <<39, 39>>, <<46, 46>>, <<58, 58>>, <<94, 94>>, <<96, 96>>, <<168, 168>>, <<173, 173>>,
       <<175, 175>>, <<180, 180>>, <<183, 184>>, <<688, 879>>, <<884, 885>>, <<890, 890>>,
       <<900, 901>>, <<903, 903>>, <<1155, 1161>>, <<1369, 1369>>, <<1375, 1375>>,
       <<1425, 1469>>, <<1471, 1471>>, <<1473, 1474>>, <<1476, 1477>>, <<1479, 1479>>,
       <<1524, 1524>>, <<1536, 1541>>, <<1552, 1562>>, <<1564, 1564>>, <<1600, 1600>>,
       <<1611, 1631>>, <<1648, 1648>>, <<1750, 1757>>, <<1759, 1768>>, <<1770, 1773>>,
       <<1807, 1807>>, <<1809, 1809>>, <<1840, 1866>>, <<1958, 1968>>, <<2027, 2037>>,
       <<2042, 2042>>, <<2045, 2045>>, <<2070, 2093>>, <<2137, 2139>>, <<2184, 2184>>,
       <<2192, 2193>>, <<2199, 2207>>, <<2249, 2306>>, <<2362, 2362>>, <<2364, 2364>>,
       <<2369, 2376>>, <<2381, 2381>>, <<2385, 2391>>, <<2402, 2403>>, <<2417, 2417>>,
       <<2433, 2433>>, <<2492, 2492>>, <<2497, 2500>>, <<2509, 2509>>, <<2530, 2531>>,
       <<2558, 2558>>, <<2561, 2562>>, <<2620, 2620>>, <<2625, 2626>>, <<2631, 2632>>,
       <<2635, 2637>>, <<2641, 2641>>, <<2672, 2673>>, <<2677, 2677>>, <<2689, 2690>>,
       <<2748, 2748>>, <<2753, 2757>>, <<2759, 2760>>, <<2765, 2765>>, <<2786, 2787>>,
       <<2810, 2815>>, <<2817, 2817>>, <<2876, 2876>>, <<2879, 2879>>, <<2881, 2884>>,
       <<2893, 2893>>, <<2901, 2902>>, <<2914, 2915>>, <<2946, 2946>>, <<3008, 3008>>,
       <<3021, 3021>>, <<3072, 3072>>, <<3076, 3076>>, <<3132, 3132>>, <<3134, 3136>>,
       <<3142, 3144>>, <<3146, 3149>>, <<3157, 3158>>, <<3170, 3171>>, <<3201, 3201>>,
       <<3260, 3260>>, <<3263, 3263>>, <<3270, 3270>>, <<3276, 3277>>, <<3298, 3299>>,
       <<3328, 3329>>, <<3387, 3388>>, <<3393, 3396>>, <<3405, 3405>>, <<3426, 3427>>,
       <<3457, 3457>>, <<3530, 3530>>, <<3538, 3540>>, <<3542, 3542>>, <<3633, 3633>>,
       <<3636, 3642>>, <<3654, 3662>>, <<3761, 3761>>, <<3764, 3772>>, <<3782, 3782>>,
       <<3784, 3790>>, <<3864, 3865>>, <<3893, 3893>>, <<3895, 3895>>, <<3897, 3897>>,
       <<3953, 3966>>, <<3968, 3972>>, <<3974, 3975>>, <<3981, 3991>>, <<3993, 4028>>,
       <<4038, 4038>>, <<4141, 4144>>, <<4146, 4151>>, <<4153, 4154>>, <<4157, 4158>>,
       <<4184, 4185>>, <<4190, 4192>>, <<4209, 4212>>, <<4226, 4226>>, <<4229, 4230>>,
       <<4237, 4237>>, <<4253, 4253>>, <<4348, 4348>>, <<4957, 4959>>, <<5906, 5908>>,
       <<5938, 5939>>, <<5970, 5971>>, <<6002, 6003>>, <<6068, 6069>>, <<6071, 6077>>,
       <<6086, 6086>>, <<6089, 6099>>, <<6103, 6103>>, <<6109, 6109>>, <<6155, 6159>>,
       <<6211, 6211>>, <<6277, 6278>>, <<6313, 6313>>, <<6432, 6434>>, <<6439, 6440>>,
       <<6450, 6450>>, <<6457, 6459>>, <<6679, 6680>>, <<6683, 6683>>, <<6742, 6742>>,
       <<6744, 6750>>, <<6752, 6752>>, <<6754, 6754>>, <<6757, 6764>>, <<6771, 6780>>,
       <<6783, 6783>>, <<6823, 6823>>, <<6832, 6877>>, <<6880, 6891>>, <<6912, 6915>>,
       <<6964, 6964>>, <<6966, 6970>>, <<6972, 6972>>, <<6978, 6978>>, <<7019, 7027>>,
       <<7040, 7041>>, <<7074, 7077>>, <<7080, 7081>>, <<7083, 7085>>, <<7142, 7142>>,
       <<7144, 7145>>, <<7149, 7149>>, <<7151, 7153>>, <<7212, 7219>>, <<7222, 7223>>,
       <<7288, 7293>>, <<7376, 7378>>, <<7380, 7392>>, <<7394, 7400>>, <<7405, 7405>>,
       <<7412, 7412>>, <<7416, 7417>>, <<7468, 7530>>, <<7544, 7544>>, <<7579, 7679>>,
       <<8125, 8125>>, <<8127, 8129>>, <<8141, 8143>>, <<8157, 8159>>, <<8173, 8175>>,
       <<8189, 8190>>, <<8203, 8207>>, <<8216, 8217>>, <<8228, 8228>>, <<8231, 8231>>,
       <<8234, 8238>>, <<8288, 8292>>, <<8294, 8303>>, <<8305, 8305>>, <<8319, 8319>>,
       <<8336, 8348>>, <<8400, 8432>>, <<11388, 11389>>, <<11503, 11505>>, <<11631, 11631>>,
       <<11647, 11647>>, <<11744, 11775>>, <<11823, 11823>>, <<12293, 12293>>,
       <<12330, 12333>>, <<12337, 12341>>, <<12347, 12347>>, <<12441, 12446>>,
       <<12540, 12542>>, <<40981, 40981>>, <<42232, 42237>>, <<42508, 42508>>,
       <<42607, 42610>>, <<42612, 42621>>, <<42623, 42623>>, <<42652, 42655>>,
       <<42736, 42737>>, <<42752, 42785>>, <<42864, 42864>>, <<42888, 42890>>,
       <<42993, 42996>>, <<43000, 43001>>, <<43010, 43010>>, <<43014, 43014>>,
       <<43019, 43019>>, <<43045, 43046>>, <<43052, 43052>>, <<43204, 43205>>,
       <<43232, 43249>>, <<43263, 43263>>, <<43302, 43309>>, <<43335, 43345>>,
       <<43392, 43394>>, <<43443, 43443>>, <<43446, 43449>>, <<43452, 43453>>,
       <<43471, 43471>>, <<43493, 43494>>, <<43561, 43566>>, <<43569, 43570>>,
       <<43573, 43574>>, <<43587, 43587>>, <<43596, 43596>>, <<43632, 43632>>,
       <<43644, 43644>>, <<43696, 43696>>, <<43698, 43700>>, <<43703, 43704>>,
       <<43710, 43711>>, <<43713, 43713>>, <<43741, 43741>>, <<43756, 43757>>,
       <<43763, 43764>>, <<43766, 43766>>, <<43867, 43871>>, <<43881, 43883>>,
       <<44005, 44005>>, <<44008, 44008>>, <<44013, 44013>>, <<64286, 64286>>,
       <<64434, 64450>>, <<65024, 65039>>, <<65043, 65043>>, <<65056, 65071>>,
       <<65106, 65106>>, <<65109, 65109>>, <<65279, 65279>>, <<65287, 65287>>,
       <<65294, 65294>>, <<65306, 65306>>, <<65342, 65342>>, <<65344, 65344>>,
       <<65392, 65392>>, <<65438, 65439>>, <<65507, 65507>>, <<65529, 65531>>,
       <<66045, 66045>>, <<66272, 66272>>, <<66422, 66426>>, <<67456, 67461>>,
       <<67463, 67504>>, <<67506, 67514>>, <<68097, 68099>>, <<68101, 68102>>,
       <<68108, 68111>>, <<68152, 68154>>, <<68159, 68159>>, <<68325, 68326>>,
       <<68900, 68903>>, <<68942, 68942>>, <<68969, 68973>>, <<68975, 68975>>,
       <<69291, 69292>>, <<69317, 69317>>, <<69370, 69375>>, <<69446, 69456>>,
       <<69506, 69509>>, <<69633, 69633>>, <<69688, 69702>>, <<69744, 69744>>,
       <<69747, 69748>>, <<69759, 69761>>, <<69811, 69814>>, <<69817, 69818>>,
       <<69821, 69821>>, <<69826, 69826>>, <<69837, 69837>>, <<69888, 69890>>,
       <<69927, 69931>>, <<69933, 69940>>, <<70003, 70003>>, <<70016, 70017>>,
       <<70070, 70078>>, <<70089, 70092>>, <<70095, 70095>>, <<70191, 70193>>,
       <<70196, 70196>>, <<70198, 70199>>, <<70206, 70206>>, <<70209, 70209>>,
       <<70367, 70367>>, <<70371, 70378>>, <<70400, 70401>>, <<70459, 70460>>,
       <<70464, 70464>>, <<70502, 70508>>, <<70512, 70516>>, <<70587, 70592>>,
       <<70606, 70606>>, <<70608, 70608>>, <<70610, 70610>>, <<70625, 70626>>,
       <<70712, 70719>>, <<70722, 70724>>, <<70726, 70726>>, <<70750, 70750>>,
       <<70835, 70840>>, <<70842, 70842>>, <<70847, 70848>>, <<70850, 70851>>,
       <<71090, 71093>>, <<71100, 71101>>, <<71103, 71104>>, <<71132, 71133>>,
       <<71219, 71226>>, <<71229, 71229>>, <<71231, 71232>>, <<71339, 71339>>,
       <<71341, 71341>>, <<71344, 71349>>, <<71351, 71351>>, <<71453, 71453>>, <<71455, 71455>>,
       <<71458, 71461>>, <<71463, 71467>>, <<71727, 71735>>, <<71737, 71738>>,
       <<71995, 71996>>, <<71998, 71998>>, <<72003, 72003>>, <<72148, 72151>>,
       <<72154, 72155>>, <<72160, 72160>>, <<72193, 72202>>, <<72243, 72248>>,
       <<72251, 72254>>, <<72263, 72263>>, <<72273, 72278>>, <<72281, 72283>>,
       <<72330, 72342>>, <<72344, 72345>>, <<72544, 72544>>, <<72546, 72548>>,
       <<72550, 72550>>, <<72752, 72758>>, <<72760, 72765>>, <<72767, 72767>>,
       <<72850, 72871>>, <<72874, 72880>>, <<72882, 72883>>, <<72885, 72886>>,
       <<73009, 73014>>, <<73018, 73018>>, <<73020, 73021>>, <<73023, 73029>>,
       <<73031, 73031>>, <<73104, 73105>>, <<73109, 73109>>, <<73111, 73111>>,
       <<73177, 73177>>, <<73459, 73460>>, <<73472, 73473>>, <<73526, 73530>>,
       <<73536, 73536>>, <<73538, 73538>>, <<73562, 73562>>, <<78896, 78912>>, <<78919, 78933>>,
       <<90398, 90409>>, <<90413, 90415>>, <<92912, 92916>>, <<92976, 92982>>,
       <<92992, 92995>>, <<93504, 93506>>, <<93547, 93548>>, <<94031, 94031>>,
       <<94095, 94111>>, <<94176, 94177>>, <<94179, 94180>>, <<94194, 94195>>,
       <<110576, 110579>>, <<110581, 110587>>, <<110589, 110590>>, <<113821, 113822>>,
       <<113824, 113827>>, <<118528, 118573>>, <<118576, 118598>>, <<119143, 119145>>,
       <<119155, 119170>>, <<119173, 119179>>, <<119210, 119213>>, <<119362, 119364>>,
       <<121344, 121398>>, <<121403, 121452>>, <<121461, 121461>>, <<121476, 121476>>,
       <<121499, 121503>>, <<121505, 121519>>, <<122880, 122886>>, <<122888, 122904>>,
       <<122907, 122913>>, <<122915, 122916>>, <<122918, 122922>>, <<122928, 122989>>,
       <<123023, 123023>>, <<123184, 123197>>, <<123566, 123566>>, <<123628, 123631>>,
       <<124139, 124143>>, <<124398, 124399>>, <<124643, 124643>>, <<124646, 124646>>,
       <<124654, 124655>>, <<124661, 124661>>, <<124671, 124671>>, <<125136, 125142>>,
       <<125252, 125259>>, <<127995, 127999>>, <<917505, 917505>>, <<917536, 917631>>,
       <<917760, 917999>> >>

\* the code points with the property Cased that are not Case_Ignorable
CasedRanges ==
    << <<65, 90>>, <<97, 122>>, <<170, 170>>, <<181, 181>>, <<186, 186>>, <<192, 214>>,
       <<216, 246>>, <<248, 442>>, <<444, 447>>, <<452, 659>>, <<662, 687>>, <<880, 883>>,
       <<886, 887>>, <<891, 893>>, <<895, 895>>, <<902, 902>>, <<904, 906>>, <<908, 908>>,
       <<910, 929>>, <<931, 1013>>, <<1015, 1153>>, <<1162, 1327>>, <<1329, 1366>>,
       <<1376, 1416>>, <<4256, 4293>>, <<4295, 4295>>, <<4301, 4301>>, <<4304, 4346>>,
       <<4349, 4351>>, <<5024, 5109>>, <<5112, 5117>>, <<7296, 7306>>, <<7312, 7354>>,
       <<7357, 7359>>, <<7424, 7467>>, <<7531, 7543>>, <<7545, 7578>>, <<7680, 7957>>,
       <<7960, 7965>>, <<7968, 8005>>, <<8008, 8013>>, <<8016, 8023>>, <<8025, 8025>>,
       <<8027, 8027>>, <<8029, 8029>>, <<8031, 8061>>, <<8064, 8116>>, <<8118, 8124>>,
       <<8126, 8126>>, <<8130, 8132>>, <<8134, 8140>>, <<8144, 8147>>, <<8150, 8155>>,
       <<8160, 8172>>, <<8178, 8180>>, <<8182, 8188>>, <<8450, 8450>>, <<8455, 8455>>,
       <<8458, 8467>>, <<8469, 8469>>, <<8473, 8477>>, <<8484, 8484>>, <<8486, 8486>>,
       <<8488, 8488>>, <<8490, 8493>>, <<8495, 8500>>, <<8505, 8505>>, <<8508, 8511>>,
       <<8517, 8521>>, <<8526, 8526>>, <<8544, 8575>>, <<8579, 8580>>, <<9398, 9449>>,
       <<11264, 11387>>, <<11390, 11492>>, <<11499, 11502>>, <<11506, 11507>>,
       <<11520, 11557>>, <<11559, 11559>>, <<11565, 11565>>, <<42560, 42605>>,
       <<42624, 42651>>, <<42786, 42863>>, <<42865, 42887>>, <<42891, 42894>>,
       <<42896, 42972>>, <<42997, 42998>>, <<43002, 43002>>, <<43824, 43866>>,
       <<43872, 43880>>, <<43888, 43967>>, <<64256, 64262>>, <<64275, 64279>>,
       <<65313, 65338>>, <<65345, 65370>>, <<66560, 66639>>, <<66736, 66771>>,
       <<66776, 66811>>, <<66928, 66938>>, <<66940, 66954>>, <<66956, 66962>>,
       <<66964, 66965>>, <<66967, 66977>>, <<66979, 66993>>, <<66995, 67001>>,
       <<67003, 67004>>, <<68736, 68786>>, <<68800, 68850>>, <<68944, 68965>>,
       <<68976, 68997>>, <<71840, 71903>>, <<93760, 93823>>, <<93856, 93880>>,
       <<93883, 93907>>, <<119808, 119892>>, <<119894, 119964>>, <<119966, 119967>>,
       <<119970, 119970>>, <<119973, 119974>>, <<119977, 119980>>, <<119982, 119993>>,
       <<119995, 119995>>, <<119997, 120003>>, <<120005, 120069>>, <<120071, 120074>>,
       <<120077, 120084>>, <<120086, 120092>>, <<120094, 120121>>, <<120123, 120126>>,
       <<120128, 120132>>, <<120134, 120134>>, <<120138, 120144>>, <<120146, 120485>>,
       <<120488, 120512>>, <<120514, 120538>>, <<120540, 120570>>, <<120572, 120596>>,
       <<120598, 120628>>, <<120630, 120654>>, <<120656, 120686>>, <<120688, 120712>>,
       <<120714, 120744>>, <<120746, 120770>>, <<120772, 120779>>, <<122624, 122633>>,
       <<122635, 122654>>, <<122661, 122666>>, <<125184, 125251>>, <<127280, 127305>>,
       <<127312, 127337>>, <<127344, 127369>> >>

InRanges(c, ranges) == \E k \in 1..Len(ranges) : ranges[k][1] <= c /\ c <= ranges[k][2]
IsCaseIgnorable(c) == InRanges(c, CaseIgnorableRanges)
IsCased(c) == InRanges(c, CasedRanges)

\* String.prototype.toLowerCase on one code point, out of context: the
\* code points of its lower-case form (U+0130 has two)
LowerIn(c, ranges) ==
    LET hits == {k \in 1..Len(ranges) :
                   /\ ranges[k][1] <= c /\ c <= ranges[k][2]
                   /\ (c - ranges[k][1]) % ranges[k][3] = 0}
    IN  IF hits = {} THEN <<c>> ELSE <<c + ranges[CHOOSE k \in hits : TRUE][4]>>
LowerChar(c) ==
    IF c < 128 THEN (IF c >= 65 /\ c <= 90 THEN <<c + 32>> ELSE <<c>>)
    ELSE IF c = 304 THEN <<105, 775>>
    ELSE LowerIn(c, LowerRanges)

\* the concatenation of the sequences f[lo], ..., f[hi]
RECURSIVE FlatIn(_, _, _)
FlatIn(f, lo, hi) ==
    IF lo > hi THEN <<>>
    ELSE IF lo = hi THEN f[lo]
    ELSE FlatIn(f, lo, (lo + hi) \div 2) \o FlatIn(f, ((lo + hi) \div 2) + 1, hi)
Flat(f) == FlatIn(f, 1, Len(f))

\* the least place of lo..hi where f is TRUE, hi + 1 when there is none,
\* and the greatest such place, lo - 1 when there is none
FirstTrue(f, lo, hi) ==
    IF \E k \in lo..hi : f[k]
    THEN CHOOSE k \in lo..hi : f[k] /\ \A j \in lo..(k - 1) : ~f[j]
    ELSE hi + 1
LastTrue(f, lo, hi) ==
    IF \E k \in lo..hi : f[k]
    THEN CHOOSE k \in lo..hi : f[k] /\ \A j \in (k + 1)..hi : ~f[j]
    ELSE lo - 1

IsHighSurrogate(c) == c >= 55296 /\ c <= 56319
IsLowSurrogate(c) == c >= 56320 /\ c <= 57343

\* the code points of a text: a high surrogate followed by a low one is one
\* code point, any other unit stands for itself
CodePoints(s) ==
    Flat([i \in 1..Len(s) |->
            IF IsHighSurrogate(s[i]) /\ i < Len(s) /\ IsLowSurrogate(s[i + 1])
            THEN <<65536 + (s[i] - 55296) * 1024 + (s[i + 1] - 56320)>>
            ELSE IF IsLowSurrogate(s[i]) /\ i > 1 /\ IsHighSurrogate(s[i - 1]) THEN <<>>
            ELSE <<s[i]>>])

\* the code units of a sequence of code points
CodeUnits(p) ==
    Flat([i \in 1..Len(p) |->
            IF p[i] >= 65536
            THEN <<55296 + ((p[i] - 65536) \div 1024), 56320 + ((p[i] - 65536) % 1024)>>
            ELSE <<p[i]>>])

\* the capital sigma at place i of p is final: a cased letter stands before
\* it and none after it, case-ignorable characters being passed over
CasedMarks(p) == SubSeq([j \in 1..Len(p) |-> IsCased(p[j])], 1, Len(p))
SeenMarks(p) == SubSeq([j \in 1..Len(p) |-> ~IsCaseIgnorable(p[j])], 1, Len(p))
SigmaBetween(cased, before, after) ==
    /\ before >= 1 /\ cased[before]
    /\ after > Len(cased) \/ ~cased[after]
SigmaAmong(cased, seen, i) ==
    SigmaBetween(cased, LastTrue(seen, 1, i - 1), FirstTrue(seen, i + 1, Len(seen)))
FinalSigma(p, i) == SigmaAmong(CasedMarks(p), SeenMarks(p), i)

\* the lower case of a sequence of code points
LowerPoints(p) ==
    Flat([i \in 1..Len(p) |->
            IF p[i] = 931 THEN (IF FinalSigma(p, i) THEN <<962>> ELSE <<963>>)
            ELSE LowerChar(p[i])])

\* String.prototype.toLowerCase
ToLowerCase(s) ==
    IF \A i \in 1..Len(s) : s[i] < 128
    THEN [i \in 1..Len(s) |-> IF s[i] >= 65 /\ s[i] <= 90 THEN s[i] + 32 ELSE s[i]]
    ELSE CodeUnits(LowerPoints(CodePoints(s)))

\* String.prototype.indexOf: 0-based index of the first occurrence, -1 if none
IndexOf(s, sub) ==
    LET hits == {i \in 0..(Len(s) - Len(sub)) : SubSeq(s, i + 1, i + Len(sub)) = sub}
    IN  IF hits = {} THEN -1 ELSE CHOOSE i \in hits : \A j \in hits : i <= j

\* String.prototype.includes
Includes(s, sub) == IndexOf(s, sub) # -1

\* Number.prototype.toString for a natural number
RECURSIVE NumToStr(_)
NumToStr(n) == IF n < 10 THEN <<48 + n>> ELSE NumToStr(n \div 10) \o <<48 + (n % 10)>>

---------------------------------------------------------------------------
(* Numbers: an IEEE 754 double, as JSON.parse reads it and as               *)
(* Number.prototype.toString and JSON.stringify write it.  Natural numbers *)
(* of any size are sequences of limbs of four decimal digits, the least    *)
(* significant first, the zero being the empty sequence.                   *)

Max(a, b) == IF a >= b THEN a ELSE b
Min(a, b) == IF a <= b THEN a ELSE b

Limb(a, i) == IF i <= Len(a) THEN a[i] ELSE 0
\* a small number as a number of any size
Small(c) == IF c = 0 THEN <<>> ELSE <<c>>

\* the place of the most significant limb that is not zero, 0 if none
TopIn(a, lo, hi) ==
    IF \E k \in lo..hi : a[k] # 0
    THEN CHOOSE k \in lo..hi : a[k] # 0 /\ \A j \in (k + 1)..hi : a[j] = 0
    ELSE 0
BigNorm(a) == SubSeq(a, 1, TopIn(a, 1, Len(a)))

\* -1, 0, 1 as a < b, a = b, a > b: the most significant limb that differs
\* decides
CmpAt(a, b, k) == IF a[k] < b[k] THEN -1 ELSE 1
CmpIn(a, b, lo, hi) ==
    IF \A k \in lo..hi : a[k] = b[k] THEN 0
    ELSE CmpAt(a, b, CHOOSE k \in lo..hi : a[k] # b[k] /\ \A j \in (k + 1)..hi : a[j] = b[j])
BigCmp(a, b) ==
    IF Len(a) # Len(b) THEN (IF Len(a) < Len(b) THEN -1 ELSE 1)
    ELSE CmpIn(a, b, 1, Len(a))

\* carries: each place generates one ("g"), passes one on ("p") or stops it
\* ("k"); a carry comes into place i when the nearest place below it that
\* does not pass one on generates one
CarryIn(st, i) ==
    /\ i > 1
    /\ \/ st[i - 1] = "g"
       \/ /\ st[i - 1] = "p"
          /\ \E d \in 2..(i - 1) : st[i - d] = "g" /\ \A m \in 1..(d - 1) : st[i - m] = "p"
Carry(st, i) == IF CarryIn(st, i) THEN 1 ELSE 0

\* a + b: the sums of the limbs, what each place does with a carry, and the
\* sums with the carries taken in
AddLimbs(a, b, n) == SubSeq([i \in 1..n |-> Limb(a, i) + Limb(b, i)], 1, n)
AddStates(s) ==
    SubSeq([i \in 1..Len(s) |-> IF s[i] >= 10000 THEN "g"
                                ELSE IF s[i] = 9999 THEN "p" ELSE "k"], 1, Len(s))
AddCarried(s, st) ==
    BigNorm(SubSeq([i \in 1..(Len(s) + 1) |->
                       IF i <= Len(s) THEN (s[i] + Carry(st, i)) % 10000
                       ELSE Carry(st, i)], 1, Len(s) + 1))
AddSums(s) == AddCarried(s, AddStates(s))
BigAdd(a, b) == AddSums(AddLimbs(a, b, Max(Len(a), Len(b))))

\* a - b for a >= b, with borrows in the place of carries
SubLimbs(a, b) == SubSeq([i \in 1..Len(a) |-> a[i] - Limb(b, i)], 1, Len(a))
SubStates(t) ==
    SubSeq([i \in 1..Len(t) |-> IF t[i] < 0 THEN "g"
                                ELSE IF t[i] = 0 THEN "p" ELSE "k"], 1, Len(t))
SubBorrowed(t, st) ==
    BigNorm(SubSeq([i \in 1..Len(t) |-> (t[i] - Carry(st, i) + 10000) % 10000], 1, Len(t)))
SubDiffs(t) == SubBorrowed(t, SubStates(t))
BigSub(a, b) == SubDiffs(SubLimbs(a, b))

\* a with k zero limbs below it: a * 10000^k
Shift(a, k) == IF a = <<>> THEN <<>> ELSE [i \in 1..k |-> 0] \o a

\* s[lo] + ... + s[hi] for natural numbers: the size of the bag that holds
\* each place as often as its number says
SumIn(s, lo, hi) == BagCardinality([i \in {k \in lo..hi : s[k] > 0} |-> s[i]])

\* a * b: the products of limbs are summed by column (the products
\* a[j] * b[k - j + 1] of column k, j from lo to hi), their low and high
\* halves apart, and the columns are carried
TermsFrom(a, b, k, lo, hi) ==
    SubSeq([j \in 1..(hi - lo + 1) |-> a[lo + j - 1] * b[k - (lo + j - 1) + 1]],
           1, hi - lo + 1)
Terms(a, b, k) == TermsFrom(a, b, k, Max(1, k - Len(b) + 1), Min(Len(a), k))
LowSum(ts) == SumIn([j \in 1..Len(ts) |-> ts[j] % 10000], 1, Len(ts))
HighSum(ts) == SumIn([j \in 1..Len(ts) |-> ts[j] \div 10000], 1, Len(ts))
Lows(a, b) ==
    SubSeq([k \in 1..(Len(a) + Len(b) - 1) |-> LowSum(Terms(a, b, k))],
           1, Len(a) + Len(b) - 1)
Highs(a, b) ==
    SubSeq([k \in 1..(Len(a) + Len(b) - 1) |-> HighSum(Terms(a, b, k))],
           1, Len(a) + Len(b) - 1)
Units(x) == BigNorm([k \in 1..Len(x) |-> x[k] % 10000])
Over(x) == BigNorm([k \in 1..Len(x) |-> x[k] \div 10000])
Columns(lows, highs) ==
    BigAdd(BigAdd(Units(lows), Shift(Over(lows), 1)),
           BigAdd(Shift(Units(highs), 1), Shift(Over(highs), 2)))
BigMul(a, b) ==
    IF a = <<>> \/ b = <<>> THEN <<>> ELSE Columns(Lows(a, b), Highs(a, b))

\* x^e for a small x, as a small number and as a number of any size: acc
\* times sq^e, by the binary digits of e
RECURSIVE Pow(_, _)
Pow(x, e) == IF e = 0 THEN 1 ELSE x * Pow(x, e - 1)
RECURSIVE PowBits(_, _, _)
PowBits(acc, sq, e) ==
    CASE e = 0 \/ acc = <<>> -> acc
      [] e = 1 -> BigMul(acc, sq)
      [] sq = <<>> -> <<>>
      [] OTHER -> PowBits(IF e % 2 = 1 THEN BigMul(acc, sq) ELSE acc, BigMul(sq, sq), e \div 2)
BigPow(x, e) == PowBits(<<1>>, Small(x), e)

\* a * 10^e, a * 2^e
BigMulPow10(a, e) == Shift(BigMul(a, <<Pow(10, e % 4)>>), e \div 4)
BigMulPow2(a, e) == BigMul(a, BigPow(2, e))

\* the place of the last element of ds that is not zero, 0 if none, and
\* of the first, Len(ds) + 1 if none
LastNonZero(ds) == TopIn(ds, 1, Len(ds))
FirstNonZero(ds) == Len(ds) + 1 - TopIn([i \in 1..Len(ds) |-> ds[Len(ds) + 1 - i]], 1, Len(ds))
StripLeadingZeros(ds) == SubSeq(ds, FirstNonZero(ds), Len(ds))
StripTrailingZeros(ds) == SubSeq(ds, 1, LastNonZero(ds))

\* the number written by decimal digits (values 0..9, the most significant
\* first), and the digits of a number, none for zero
BigOfDigits(ds) ==
    LET n == Len(ds)
        D(i) == IF i >= 1 THEN ds[i] ELSE 0
    IN  BigNorm([k \in 1..((n + 3) \div 4) |->
                    D(n - 4 * k + 4) + 10 * D(n - 4 * k + 3)
                      + 100 * D(n - 4 * k + 2) + 1000 * D(n - 4 * k + 1)])
BigDigits(a) ==
    LET n == Len(a)
        Digit(i) == LET limb == a[n - ((i - 1) \div 4)]
                        place == (i - 1) % 4
                    IN  (limb \div Pow(10, 3 - place)) % 10
    IN  StripLeadingZeros(SubSeq([i \in 1..(4 * n) |-> Digit(i)], 1, 4 * n))

\* floor(n / d) and n mod d for d > 0, by long division in limbs.  The limb
\* c of the quotient for rest < t * 10000 has c * t <= rest < (c + 1) * t;
\* with top the two limbs of rest at and above the top limb of t (last), it
\* is one of top \div (last + 1) .. top \div last.  These are few when last
\* is 5000 or more, so n and d are first taken by the same factor that
\* makes the top limb of d so.
IsQuotient(rest, t, ct) == BigCmp(ct, rest) <= 0 /\ BigCmp(rest, BigAdd(ct, t)) < 0
QuotientLimbIn(rest, t, lo, hi) ==
    CHOOSE c \in lo..hi : IsQuotient(rest, t, BigMul(t, Small(c)))
QuotientLimbOf(rest, t, top, last) ==
    QuotientLimbIn(rest, t, top \div (last + 1), Min(9999, top \div last))
QuotientLimb(rest, t) ==
    QuotientLimbOf(rest, t, Limb(rest, Len(t) + 1) * 10000 + Limb(rest, Len(t)), t[Len(t)])
\* q holds the limbs of the quotient so far, those for t = d * 10000^p and
\* below are to come
RECURSIVE BigDivFrom(_, _, _, _)
DivNext(c, rest, d, p, q) ==
    IF c = 0 THEN BigDivFrom(rest, d, p - 1, <<0>> \o q)
    ELSE BigDivFrom(BigSub(rest, BigMul(Shift(d, p), <<c>>)), d, p - 1, <<c>> \o q)
BigDivFrom(rest, d, p, q) ==
    IF p < 0 THEN BigNorm(q) ELSE DivNext(QuotientLimb(rest, Shift(d, p)), rest, d, p, q)
DivResult(n, d, q) ==
    IF q = <<>> THEN [q |-> q, r |-> n] ELSE [q |-> q, r |-> BigSub(n, BigMul(q, d))]
DivScaled(n, d, ns, dsc) == DivResult(n, d, BigDivFrom(ns, dsc, Len(ns) - Len(dsc), <<>>))
BigDivMod(n, d) ==
    DivScaled(n, d, BigMul(n, <<10000 \div (d[Len(d)] + 1)>>),
              BigMul(d, <<10000 \div (d[Len(d)] + 1)>>))

\* 2^52 and 2^53, in limbs
Two52 == <<496, 2737, 5996, 4503>>
Two53 == <<992, 5474, 1992, 9007>>

\* the double nearest to digits * 10^e (digits without leading or trailing
\* zeros, not empty), ties to even: zero, infinite, or q * 2^b with
\* 2^52 <= q < 2^53, or q < 2^52 and b = -1074
Zero == [kind |-> "zero", q |-> <<>>, b |-> 0]
Infinite == [kind |-> "infinite", q |-> <<>>, b |-> 0]
Finite(q, b) == IF b > 971 THEN Infinite ELSE [kind |-> "finite", q |-> q, b |-> b]
\* the least d * 2^k, and b + k, with n < 2^53 * d * 2^k
RECURSIVE ScaleUp(_, _, _)
ScaleUp(n, d, b) ==
    IF BigCmp(n, BigMul(d, Two53)) >= 0 THEN ScaleUp(n, BigAdd(d, d), b + 1) ELSE <<d, b>>
\* the quotient q of n by d rounded: up when twice the remainder is above d
\* (half > 0), or equal to it and q is odd; a q that reaches 2^53 is 2^52
\* with the next exponent
Carried(q, b) ==
    IF q = <<>> THEN Zero
    ELSE IF q = Two53 THEN Finite(Two52, b + 1)
    ELSE Finite(q, b)
Rounded(q, half, b) ==
    Carried(IF half > 0 \/ (half = 0 /\ Limb(q, 1) % 2 = 1) THEN BigAdd(q, <<1>>) ELSE q, b)
Nearest(qr, d, b) ==
    IF qr.r = <<>> THEN Carried(qr.q, b)
    ELSE Rounded(qr.q, BigCmp(BigAdd(qr.r, qr.r), d), b)
\* a quotient of 2^52 or more with an exponent above 971 is out of range
Quotient(n, scaled) ==
    IF scaled[2] > 971 THEN Infinite
    ELSE Nearest(BigDivMod(n, scaled[1]), scaled[1], scaled[2])
\* the double nearest to n / d, which is 2^(b0 + 54) or more, or has b0 = -1074
Ratio(n, d, b0) == IF n = <<>> THEN Zero ELSE Quotient(n, ScaleUp(n, d, b0))
Exponent2(point) == Max((((point - 1) * 33219) \div 10000) - 54, -1074)
ToDouble(digits, e) ==
    IF Len(digits) + e > 310 THEN Infinite
    ELSE IF Len(digits) + e < -330 THEN Zero
    ELSE Ratio(BigMulPow2(BigMulPow10(BigOfDigits(digits), Max(e, 0)),
                          Max(-Exponent2(Len(digits) + e), 0)),
               BigMulPow2(BigMulPow10(<<1>>, Max(-e, 0)),
                          Max(Exponent2(Len(digits) + e), 0)),
               Exponent2(Len(digits) + e))

\* the decimal digits that Number::toString writes for a finite double
\* other than zero: the fewest digits s (k of them) with s * 10^(n - k)
\* read back as the same double, the nearest to it if several, the even one
\* on a tie; [digits, point] with point = n.  Of the digits ds * 10^ex of
\* the double, the first k (floor) and these plus one (ceil) are tried, for
\* k = 1, 2, ...; seventeen digits are enough for every double.
Reads(x, c, ex) ==
    ToDouble(StripTrailingZeros(c), ex + (Len(c) - Len(StripTrailingZeros(c)))) = x
Candidates(floorDs) == <<floorDs, BigDigits(BigAdd(BigOfDigits(floorDs), <<1>>))>>
\* 2 when the digits cut off (rest) bring the double nearer to ceil
Nearer(rest, last) ==
    IF rest[1] > 5 \/ (rest[1] = 5 /\ \E i \in 2..Len(rest) : rest[i] # 0) THEN 2
    ELSE IF rest[1] < 5 THEN 1
    ELSE IF last % 2 = 0 THEN 1 ELSE 2
\* whether each of the two candidates reads back as x, and which of them is
\* written: 0 for none
ReadBack(x, cands, ex) == SubSeq([c \in 1..2 |-> Reads(x, cands[c], ex)], 1, 2)
PickedOf(ok, nearer) ==
    IF ok[1] /\ ok[2] THEN nearer ELSE IF ok[1] THEN 1 ELSE IF ok[2] THEN 2 ELSE 0
Picked(x, ds, ex, k) ==
    PickedOf(ReadBack(x, Candidates(SubSeq(ds, 1, k)), ex + (Len(ds) - k)),
             Nearer(SubSeq(ds, k + 1, Len(ds)), ds[k]))
ShortestOf(ds, ex, k, c) ==
    [digits |-> StripTrailingZeros(c), point |-> Len(c) + ex + (Len(ds) - k)]
\* picks[k] is what Picked gives for k digits, k the least with a candidate
\* that reads back; all the digits are written when there is none
ShortestAt(ds, ex, picks, k) ==
    IF k >= Len(ds) THEN [digits |-> StripTrailingZeros(ds), point |-> Len(ds) + ex]
    ELSE ShortestOf(ds, ex, k, Candidates(SubSeq(ds, 1, k))[picks[k]])
ShortestIn(ds, ex, picks) ==
    ShortestAt(ds, ex, picks, FirstTrue([k \in 1..Len(picks) |-> picks[k] # 0], 1, Len(picks)))
ShortestFrom(x, ds, ex) ==
    ShortestIn(ds, ex, SubSeq([k \in 1..Min(17, Len(ds) - 1) |-> Picked(x, ds, ex, k)],
                              1, Min(17, Len(ds) - 1)))
Shortest(x) ==
    ShortestFrom(x, BigDigits(BigMul(x.q, IF x.b >= 0 THEN BigPow(2, x.b) ELSE BigPow(5, -x.b))),
                 Min(x.b, 0))

---------------------------------------------------------------------------
(* JavaScript values *)

\* 'Infinity', '-Infinity', '-0', '[object Object]' is S_ObjectObject
S_Infinity ==
    <<73, 110, 102, 105, 110, 105, 116, 121>>
S_MinusInfinity ==
    <<45, 73, 110, 102, 105, 110, 105, 116, 121>>
S_MinusZero ==
    <<45, 48>>

Undefined == [t |-> "undefined", n |-> 0, s |-> <<>>, h |-> <<>>, c |-> <<>>]
Null      == [t |-> "null", n |-> 0, s |-> <<>>, h |-> <<>>, c |-> <<>>]
\* a number is a double: an integer of magnitude below 10^9 is held as
\* such (Num), any other double by the text that Number::toString writes
\* for it, and the negative zero by '-0' (NumText)
Num(k)    == [t |-> "number", n |-> k, s |-> <<>>, h |-> <<>>, c |-> <<>>]
NumText(x) == [t |-> "number", n |-> 0, s |-> x, h |-> <<>>, c |-> <<>>]
Str(x)    == [t |-> "string", n |-> 0, s |-> x, h |-> <<>>, c |-> <<>>]
\* an ExcelJS hyperlink cell value { text, hyperlink, tooltip: hyperlink }
Link(text, url) == [t |-> "hyperlink", n |-> 0, s |-> text, h |-> url, c |-> <<>>]
\* true / false
Bool(b)   == [t |-> "boolean", n |-> IF b THEN 1 ELSE 0, s |-> <<>>, h |-> <<>>, c |-> <<>>]
\* a list of values, and an object with its own properties in order (c)
Arr(items) == [t |-> "array", n |-> 0, s |-> <<>>, h |-> <<>>, c |-> items]
Obj(props) == [t |-> "object", n |-> 0, s |-> <<>>, h |-> <<>>, c |-> props]

\* value == null || value === undefined
IsNullish(v) == v.t \in {"undefined", "null"}

\* truthiness of a value
Truthy(v) ==
    CASE v.t = "number" -> v.n # 0 \/ v.s \notin {<<>>, S_MinusZero}
      [] v.t = "string" -> v.s # <<>>
      [] v.t = "hyperlink" -> TRUE
      [] v.t \in {"function", "prototype"} -> TRUE
      [] v.t = "boolean" -> v.n = 1
      [] v.t \in {"array", "object"} -> TRUE
      [] OTHER -> FALSE

\* the text of decimal digits (values 0..9), and n zeros
DigitChars(ds) == [i \in 1..Len(ds) |-> 48 + ds[i]]
Zeros(n) == [i \in 1..n |-> 48]

\* Number::toString of the positive number 0.d1 d2 ... dk * 10^point
DecimalText(ds, point) ==
    LET k == Len(ds)
        e == point - 1
        exponent == <<101, IF e < 0 THEN 45 ELSE 43>> \o NumToStr(IF e < 0 THEN -e ELSE e)
    IN  IF k <= point /\ point <= 21 THEN DigitChars(ds) \o Zeros(point - k)
        ELSE IF 0 < point /\ point <= 21
             THEN DigitChars(SubSeq(ds, 1, point)) \o <<46>> \o DigitChars(SubSeq(ds, point + 1, k))
        ELSE IF -6 < point /\ point <= 0 THEN <<48, 46>> \o Zeros(-point) \o DigitChars(ds)
        ELSE IF k = 1 THEN DigitChars(ds) \o exponent
        ELSE <<48 + ds[1], 46>> \o DigitChars(SubSeq(ds, 2, k)) \o exponent

\* the number 0.d1 ... dk * 10^point (digits without leading or trailing
\* zeros, not empty), negated or not, as a value
NumberOf(negative, ds, point) ==
    IF Len(ds) <= point /\ point <= 9
    THEN LET k == SumIn([i \in 1..Len(ds) |-> ds[i] * Pow(10, point - i)], 1, Len(ds))
         IN  Num(IF negative THEN -k ELSE k)
    ELSE NumText((IF negative THEN <<45>> ELSE <<>>) \o DecimalText(ds, point))

\* the double that the literal digits * 10^e, negated or not, is read as
\* (digits not empty): a literal of at most 15 significant digits within
\* 10^-300..10^300 is the shortest text of its own double
SignedZero(negative) == IF negative THEN NumText(S_MinusZero) ELSE Num(0)
FromShortest(negative, shortest) == NumberOf(negative, shortest.digits, shortest.point)
FromDouble(negative, x) ==
    IF x.kind = "zero" THEN SignedZero(negative)
    ELSE IF x.kind = "infinite" THEN NumText(IF negative THEN S_MinusInfinity ELSE S_Infinity)
    ELSE FromShortest(negative, Shortest(x))
FromDigits(negative, ds, e) ==
    IF ds = <<>> THEN SignedZero(negative)
    ELSE IF Len(ds) <= 15 /\ Len(ds) + e >= -300 /\ Len(ds) + e <= 300
         THEN NumberOf(negative, ds, Len(ds) + e)
    ELSE FromDouble(negative, ToDouble(ds, e))
FromStripped(negative, ds, e) == FromDigits(negative, ds, e - Len(ds))
FromLead(negative, lead, e) == FromStripped(negative, StripTrailingZeros(lead), e + Len(lead))
NumberOfLiteral(negative, digits, e) == FromLead(negative, StripLeadingZeros(digits), e)

\* Number.prototype.toString
NumberToString(v) ==
    IF v.s = S_MinusZero THEN <<48>>
    ELSE IF v.s # <<>> THEN v.s
    ELSE IF v.n < 0 THEN <<45>> \o NumToStr(-v.n)
    ELSE NumToStr(v.n)

\* a === b for values that are not objects, with +0 and -0 the same
IsZero(v) == v.t = "number" /\ v.n = 0 /\ v.s \in {<<>>, S_MinusZero}
SamePrimitive(a, b) == a = b \/ (IsZero(a) /\ IsZero(b))

\* a row object: its own keys in enumeration order, each with its value
Prop(k, v) == [k |-> k, v |-> v]
Keys(row) == [i \in 1..Len(row) |-> row[i].k]
HasKey(row, k) == \E i \in 1..Len(row) : row[i].k = k

\* the members a plain object inherits from Object.prototype
ObjectPrototypeNames ==
    { S_constructor, S_toString, S_toLocaleString, S_valueOf, S_hasOwnProperty,
      S_isPrototypeOf, S_propertyIsEnumerable, S_defineGetter, S_defineSetter,
      S_lookupGetter, S_lookupSetter, S_proto }


\* the members of Array.prototype, String.prototype, Number.prototype and
\* Boolean.prototype that have a string key (length apart, which an array
\* and a string hold themselves)
\* Array.prototype:
\*   at, concat, copyWithin, entries, every, fill, filter, find,
\*   findIndex, findLast, findLastIndex, flat, flatMap, forEach, includes,
\*   indexOf, join, keys, lastIndexOf, map, pop, push, reduce,
\*   reduceRight, reverse, shift, slice, some, sort, splice,
\*   toLocaleString, toReversed, toSorted, toSpliced, toString, unshift,
\*   values, with, constructor
ArrayPrototypeNames ==
    { <<97, 116>>,
      <<99, 111, 110, 99, 97, 116>>,
      <<99, 111, 112, 121, 87, 105, 116, 104, 105, 110>>,
      <<101, 110, 116, 114, 105, 101, 115>>,
      <<101, 118, 101, 114, 121>>,
      <<102, 105, 108, 108>>,
      <<102, 105, 108, 116, 101, 114>>,
      <<102, 105, 110, 100>>,
      <<102, 105, 110, 100, 73, 110, 100, 101, 120>>,
      <<102, 105, 110, 100, 76, 97, 115, 116>>,
      <<102, 105, 110, 100, 76, 97, 115, 116, 73, 110, 100, 101, 120>>,
      <<102, 108, 97, 116>>,
      <<102, 108, 97, 116, 77, 97, 112>>,
      <<102, 111, 114, 69, 97, 99, 104>>,
      <<105, 110, 99, 108, 117, 100, 101, 115>>,
      <<105, 110, 100, 101, 120, 79, 102>>,
      <<106, 111, 105, 110>>,
      <<107, 101, 121, 115>>,
      <<108, 97, 115, 116, 73, 110, 100, 101, 120, 79, 102>>,
      <<109, 97, 112>>,
      <<112, 111, 112>>,
      <<112, 117, 115, 104>>,
      <<114, 101, 100, 117, 99, 101>>,
      <<114, 101, 100, 117, 99, 101, 82, 105, 103, 104, 116>>,
      <<114, 101, 118, 101, 114, 115, 101>>,
      <<115, 104, 105, 102, 116>>,
      <<115, 108, 105, 99, 101>>,
      <<115, 111, 109, 101>>,
      <<115, 111, 114, 116>>,
      <<115, 112, 108, 105, 99, 101>>,
      <<116, 111, 76, 111, 99, 97, 108, 101, 83, 116, 114, 105, 110, 103>>,
      <<116, 111, 82, 101, 118, 101, 114, 115, 101, 100>>,
      <<116, 111, 83, 111, 114, 116, 101, 100>>,
      <<116, 111, 83, 112, 108, 105, 99, 101, 100>>,
      <<116, 111, 83, 116, 114, 105, 110, 103>>,
      <<117, 110, 115, 104, 105, 102, 116>>,
      <<118, 97, 108, 117, 101, 115>>,
      <<119, 105, 116, 104>>,
      <<99, 111, 110, 115, 116, 114, 117, 99, 116, 111, 114>> }
\* String.prototype:
\*   anchor, at, big, blink, bold, charAt, charCodeAt, codePointAt,
\*   concat, endsWith, fixed, fontcolor, fontsize, includes, indexOf,
\*   isWellFormed, italics, lastIndexOf, link, localeCompare, match,
\*   matchAll, normalize, padEnd, padStart, repeat, replace, replaceAll,
\*   search, slice, small, split, startsWith, strike, sub, substr,
\*   substring, sup, toLocaleLowerCase, toLocaleUpperCase, toLowerCase,
\*   toString, toUpperCase, toWellFormed, trim, trimEnd, trimLeft,
\*   trimRight, trimStart, valueOf, constructor
StringPrototypeNames ==
    { <<97, 110, 99, 104, 111, 114>>,
      <<97, 116>>,
      <<98, 105, 103>>,
      <<98, 108, 105, 110, 107>>,
      <<98, 111, 108, 100>>,
      <<99, 104, 97, 114, 65, 116>>,
      <<99, 104, 97, 114, 67, 111, 100, 101, 65, 116>>,
      <<99, 111, 100, 101, 80, 111, 105, 110, 116, 65, 116>>,
      <<99, 111, 110, 99, 97, 116>>,
      <<101, 110, 100, 115, 87, 105, 116, 104>>,
      <<102, 105, 120, 101, 100>>,
      <<102, 111, 110, 116, 99, 111, 108, 111, 114>>,
      <<102, 111, 110, 116, 115, 105, 122, 101>>,
      <<105, 110, 99, 108, 117, 100, 101, 115>>,
      <<105, 110, 100, 101, 120, 79, 102>>,
      <<105, 115, 87, 101, 108, 108, 70, 111, 114, 109, 101, 100>>,
      <<105, 116, 97, 108, 105, 99, 115>>,
      <<108, 97, 115, 116, 73, 110, 100, 101, 120, 79, 102>>,
      <<108, 105, 110, 107>>,
      <<108, 111, 99, 97, 108, 101, 67, 111, 109, 112, 97, 114, 101>>,
      <<109, 97, 116, 99, 104>>,
      <<109, 97, 116, 99, 104, 65, 108, 108>>,
      <<110, 111, 114, 109, 97, 108, 105, 122, 101>>,
      <<112, 97, 100, 69, 110, 100>>,
      <<112, 97, 100, 83, 116, 97, 114, 116>>,
      <<114, 101, 112, 101, 97, 116>>,
      <<114, 101, 112, 108, 97, 99, 101>>,
      <<114, 101, 112, 108, 97, 99, 101, 65, 108, 108>>,
      <<115, 101, 97, 114, 99, 104>>,
      <<115, 108, 105, 99, 101>>,
      <<115, 109, 97, 108, 108>>,
      <<115, 112, 108, 105, 116>>,
      <<115, 116, 97, 114, 116, 115, 87, 105, 116, 104>>,
      <<115, 116, 114, 105, 107, 101>>,
      <<115, 117, 98>>,
      <<115, 117, 98, 115, 116, 114>>,
      <<115, 117, 98, 115, 116, 114, 105, 110, 103>>,
      <<115, 117, 112>>,
      <<116, 111, 76, 111, 99, 97, 108, 101, 76, 111, 119, 101, 114, 67, 97, 115, 101>>,
      <<116, 111, 76, 111, 99, 97, 108, 101, 85, 112, 112, 101, 114, 67, 97, 115, 101>>,
      <<116, 111, 76, 111, 119, 101, 114, 67, 97, 115, 101>>,
      <<116, 111, 83, 116, 114, 105, 110, 103>>,
      <<116, 111, 85, 112, 112, 101, 114, 67, 97, 115, 101>>,
      <<116, 111, 87, 101, 108, 108, 70, 111, 114, 109, 101, 100>>,
      <<116, 114, 105, 109>>,
      <<116, 114, 105, 109, 69, 110, 100>>,
      <<116, 114, 105, 109, 76, 101, 102, 116>>,
      <<116, 114, 105, 109, 82, 105, 103, 104, 116>>,
      <<116, 114, 105, 109, 83, 116, 97, 114, 116>>,
      <<118, 97, 108, 117, 101, 79, 102>>,
      <<99, 111, 110, 115, 116, 114, 117, 99, 116, 111, 114>> }
\* Number.prototype:
\*   toExponential, toFixed, toLocaleString, toPrecision, toString,
\*   valueOf, constructor
NumberPrototypeNames ==
    { <<116, 111, 69, 120, 112, 111, 110, 101, 110, 116, 105, 97, 108>>,
      <<116, 111, 70, 105, 120, 101, 100>>,
      <<116, 111, 76, 111, 99, 97, 108, 101, 83, 116, 114, 105, 110, 103>>,
      <<116, 111, 80, 114, 101, 99, 105, 115, 105, 111, 110>>,
      <<116, 111, 83, 116, 114, 105, 110, 103>>,
      <<118, 97, 108, 117, 101, 79, 102>>,
      <<99, 111, 110, 115, 116, 114, 117, 99, 116, 111, 114>> }
\* Boolean.prototype:
\*   toString, valueOf, constructor
BooleanPrototypeNames ==
    { <<116, 111, 83, 116, 114, 105, 110, 103>>,
      <<118, 97, 108, 117, 101, 79, 102>>,
      <<99, 111, 110, 115, 116, 114, 117, 99, 116, 111, 114>> }

\* an inherited member: a function of that name, and for __proto__ the
\* prototype object; not a string, and truthy
Inherited(name) ==
    [t |-> IF name = S_proto THEN "prototype" ELSE "function", n |-> 0, s |-> name, h |-> <<>>,
     c |-> <<>>]

\* row[k]: the own property, else what the prototype chain holds under
\* that name, else undefined
Get(row, k) ==
    IF HasKey(row, k) THEN row[CHOOSE i \in 1..Len(row) : row[i].k = k].v
    ELSE IF k \in ObjectPrototypeNames THEN Inherited(k)
    ELSE Undefined

\* the class of a value that is no plain object, and the names of the
\* prototype of that class
ClassOf(v) ==
    CASE v.t = "array" -> S_Array
      [] v.t = "string" -> S_String
      [] v.t = "number" -> S_Number
      [] OTHER -> S_Boolean
ClassPrototypeNames(class) ==
    CASE class = S_Array -> ArrayPrototypeNames
      [] class = S_String -> StringPrototypeNames
      [] class = S_Number -> NumberPrototypeNames
      [] OTHER -> BooleanPrototypeNames

\* a member inherited by a value of that class: the function of the class
\* prototype (h holds the class; trimLeft and trimRight are the functions
\* trimStart and trimEnd), for __proto__ the class prototype itself, else
\* the member of Object.prototype
InheritedFrom(class, name) ==
    IF name = S_proto
    THEN [t |-> "prototype", n |-> 0, s |-> name, h |-> class, c |-> <<>>]
    ELSE IF name \in ClassPrototypeNames(class)
    THEN [t |-> "function", n |-> 0,
          s |-> CASE name = S_trimLeft -> S_trimStart
                  [] name = S_trimRight -> S_trimEnd
                  [] OTHER -> name,
          h |-> class, c |-> <<>>]
    ELSE IF name \in ObjectPrototypeNames THEN Inherited(name)
    ELSE Undefined

\* Object.keys(v): the own keys of an object, the indices of a list and of
\* a string, nothing for a number or a boolean
OwnKeys(v) ==
    CASE v.t = "object" -> Keys(v.c)
      [] v.t = "array" -> [i \in 1..Len(v.c) |-> NumToStr(i - 1)]
      [] v.t = "string" -> [i \in 1..Len(v.s) |-> NumToStr(i - 1)]
      [] OTHER -> <<>>

\* the place of the index that the key k writes among n elements, 0 when k
\* is no such index
PlaceOf(k, n) ==
    IF \E i \in 1..n : NumToStr(i - 1) = k THEN CHOOSE i \in 1..n : NumToStr(i - 1) = k ELSE 0

\* v[k] of a value that is not null or undefined: an own property, an
\* element of a list, a character of a string, the length of either, else
\* what the prototype chain holds under that name, else undefined
GetValue(v, k) ==
    CASE v.t = "object" -> Get(v.c, k)
      [] v.t = "array" ->
            IF PlaceOf(k, Len(v.c)) # 0 THEN v.c[PlaceOf(k, Len(v.c))]
            ELSE IF k = S_length THEN Num(Len(v.c))
            ELSE InheritedFrom(S_Array, k)
      [] v.t = "string" ->
            IF PlaceOf(k, Len(v.s)) # 0 THEN Str(<<v.s[PlaceOf(k, Len(v.s))]>>)
            ELSE IF k = S_length THEN Num(Len(v.s))
            ELSE InheritedFrom(S_String, k)
      [] v.t \in {"number", "boolean"} -> InheritedFrom(ClassOf(v), k)
      [] OTHER -> Undefined

---------------------------------------------------------------------------
(* getBilingualHeader and the static dictionary *)

BILINGUAL_HEADERS ==
    << Prop(S_ID, S_STT_LABEL),
       Prop(S_NoiDung, S_NoiDungBi),
       Prop(S_QuyDinhCu, S_QuyDinhCuBi),
       Prop(S_QuyDinhMoi, S_QuyDinhMoiBi),
       Prop(S_ThayDoi, S_ThayDoiBi),
       Prop(S_CanCuCu, S_CanCuCuBi),
       Prop(S_CanCuMoi, S_CanCuMoiBi) >>

\* BILINGUAL_HEADERS[header]: the own entry, else what the prototype chain
\* holds under that name, else undefined
LookupHeader(header) ==
    IF HasKey(dictionary, header)
    THEN Str(dictionary[CHOOSE i \in 1..Len(dictionary) : dictionary[i].k = header].v)
    ELSE IF header \in ObjectPrototypeNames THEN Inherited(header)
    ELSE Undefined

\* BILINGUAL_HEADERS[header] || header
getBilingualHeader(header) ==
    IF Truthy(LookupHeader(header)) THEN LookupHeader(header) ELSE Str(header)

---------------------------------------------------------------------------
(* isChinese and JSON.stringify *)

\* /[\u4e00-\u9fff]/.test(text)
isChinese(text) == \E i \in 1..Len(text) : text[i] >= 19968 /\ text[i] <= 40959

\* the four lower-case hexadecimal digits of a code unit
HexDigit(d) == IF d < 10 THEN 48 + d ELSE 87 + d
Hex4(c) == <<HexDigit(c \div 4096), HexDigit((c \div 256) % 16),
             HexDigit((c \div 16) % 16), HexDigit(c % 16)>>

\* JSON.stringify of the characters of a string: ", \ and the control
\* characters are escaped (\b \t \n \f \r by letter, the others as \u00xx),
\* and so is a surrogate that is not half of a pair
QuoteChars(s) ==
    LET Paired(i) == \/ IsHighSurrogate(s[i]) /\ i < Len(s) /\ IsLowSurrogate(s[i + 1])
                     \/ IsLowSurrogate(s[i]) /\ i > 1 /\ IsHighSurrogate(s[i - 1])
        Quoted(i) ==
            LET c == s[i]
            IN  CASE c = 34 \/ c = 92 -> <<92, c>>
                  [] c = 8 -> <<92, 98>>
                  [] c = 9 -> <<92, 116>>
                  [] c = 10 -> <<92, 110>>
                  [] c = 12 -> <<92, 102>>
                  [] c = 13 -> <<92, 114>>
                  [] c < 32 /\ c \notin {8, 9, 10, 12, 13} -> <<92, 117>> \o Hex4(c)
                  [] c >= 55296 /\ c <= 57343 /\ ~Paired(i) -> <<92, 117>> \o Hex4(c)
                  [] OTHER -> <<c>>
    IN  Flat([i \in 1..Len(s) |-> Quoted(i)])

JSONString(s) == <<34>> \o QuoteChars(s) \o <<34>>

\* the pieces f[1], ..., f[n] with a comma between them
Joined(f) == Flat([i \in 1..Len(f) |-> IF i = 1 THEN f[i] ELSE <<44>> \o f[i]])

\* JSON.stringify of a value: a number that is not finite is null, a list
\* writes undefined and functions as null, an object leaves out the
\* properties that hold them
RECURSIVE JSONValue(_)
RECURSIVE JSONProps(_)
JSONValue(v) ==
    CASE v.t = "number" ->
            IF v.s \in {S_Infinity, S_MinusInfinity} THEN S_null ELSE NumberToString(v)
      [] v.t = "string" -> JSONString(v.s)
      [] v.t = "boolean" -> IF v.n = 1 THEN S_true ELSE S_false
      [] v.t = "array" ->
            <<91>> \o Joined([i \in 1..Len(v.c) |-> JSONValue(v.c[i])]) \o <<93>>
      [] v.t = "object" -> <<123>> \o JSONProps(v.c) \o <<125>>
      [] v.t = "hyperlink" ->
            <<123>> \o JSONProps(<<[k |-> <<116, 101, 120, 116>>, v |-> Str(v.s)],
                                    [k |-> <<104, 121, 112, 101, 114, 108, 105, 110, 107>>,
                                     v |-> Str(v.h)],
                                    [k |-> <<116, 111, 111, 108, 116, 105, 112>>,
                                     v |-> Str(v.h)]>>) \o <<125>>
      [] v.t = "prototype" ->
            CASE v.h = S_Array -> <<91, 93>>
              [] v.h = S_String -> <<34, 34>>
              [] v.h = S_Number -> <<48>>
              [] v.h = S_Boolean -> S_false
              [] OTHER -> <<123, 125>>
      [] OTHER -> S_null

\* "key":value,... over the own keys in order
JSONProps(row) ==
    LET Written(p) == p.v.t \notin {"undefined", "function"}
        kept == SelectSeq(row, Written)
    IN  Joined([i \in 1..Len(kept) |->
                   JSONString(kept[i].k) \o <<58>> \o JSONValue(kept[i].v)])

\* JSON.stringify(row) of a row read from JSON: an object {"key":value,...}
\* or any other value
JSONStringify(row) == JSONValue(row)

\* JSON.stringify of a list of rows
JSONItems(rows) == Joined([i \in 1..Len(rows) |-> JSONStringify(rows[i])])
JSONStringifyRows(rows) == <<91>> \o JSONItems(rows) \o <<93>>

\* a variant that looks at the values only
IsChineseRowByValues(row) ==
    IF row.t = "object"
    THEN \E i \in 1..Len(row.c) : row.c[i].v.t = "string" /\ isChinese(row.c[i].v.s)
    ELSE isChinese(JSONValue(row))

\* isChinese(JSON.stringify(row)): the row is a secondary-language row
IsChineseRow(row) == isChinese(JSONStringify(row))

---------------------------------------------------------------------------
(* JSON.parse *)

\* the result of a parse step: the value read and the place after it, or a
\* syntax error
ParseFail == [ok |-> FALSE, v |-> Null, next |-> 0]
Parsed(v, next) == [ok |-> TRUE, v |-> v, next |-> next]

IsJSONSpace(c) == c \in {32, 9, 10, 13}
SkipSpace(s, i) == FirstTrue([k \in 1..Len(s) |-> ~IsJSONSpace(s[k])], i, Len(s))

\* the value of a hexadecimal digit, -1 for any other character
HexValue(c) ==
    IF c >= 48 /\ c <= 57 THEN c - 48
    ELSE IF c >= 97 /\ c <= 102 THEN c - 87
    ELSE IF c >= 65 /\ c <= 70 THEN c - 55
    ELSE -1

\* the characters of a string literal after its opening quote, which is
\* before place i; an escape is one of \" \\ \/ \b \f \n \r \t or \u and four
\* hexadecimal digits, which give one code unit; the literal ends at the
\* first quote that no backslash escapes.  A place is escaped when an odd
\* number of backslashes stands right before it.
PlainMarks(s) == SubSeq([k \in 1..Len(s) |-> s[k] # 92], 1, Len(s))
EscapedMarks(s, i, plain) ==
    SubSeq([k \in 1..Len(s) |->
               k > i /\ s[k - 1] = 92 /\ (k - 1 - LastTrue(plain, i, k - 1)) % 2 = 1],
           1, Len(s))
ClosingMarks(s, escaped) == SubSeq([k \in 1..Len(s) |-> s[k] = 34 /\ ~escaped[k]], 1, Len(s))
IsUnicodeEscape(s, i, escaped, k) == k >= i /\ s[k] = 117 /\ escaped[k]
InHex(s, i, escaped, k) == \E d \in 1..4 : IsUnicodeEscape(s, i, escaped, k - d)
HexOK(s, end, k) == k + 4 < end /\ \A j \in (k + 1)..(k + 4) : HexValue(s[j]) >= 0
InvalidChar(s, i, escaped, end, k) ==
    IF InHex(s, i, escaped, k) THEN FALSE
    ELSE IF escaped[k]
         THEN IF s[k] = 117 THEN ~HexOK(s, end, k)
              ELSE s[k] \notin {34, 92, 47, 98, 102, 110, 114, 116}
    ELSE s[k] < 32
Piece(s, i, escaped, k) ==
    IF InHex(s, i, escaped, k) THEN <<>>
    ELSE IF escaped[k]
         THEN CASE s[k] = 98  -> <<8>>
                [] s[k] = 102 -> <<12>>
                [] s[k] = 110 -> <<10>>
                [] s[k] = 114 -> <<13>>
                [] s[k] = 116 -> <<9>>
                [] s[k] = 117 -> <<4096 * HexValue(s[k + 1]) + 256 * HexValue(s[k + 2])
                                    + 16 * HexValue(s[k + 3]) + HexValue(s[k + 4])>>
                [] OTHER -> <<s[k]>>
    ELSE IF s[k] = 92 THEN <<>>
    ELSE <<s[k]>>
CharsBetween(s, i, acc, escaped, end) ==
    IF end > Len(s) \/ \E k \in i..(end - 1) : InvalidChar(s, i, escaped, end, k)
    THEN ParseFail
    ELSE Parsed(Str(acc \o Flat([k \in 1..(end - i) |-> Piece(s, i, escaped, i + k - 1)])),
                end + 1)
CharsEscaped(s, i, acc, escaped) ==
    CharsBetween(s, i, acc, escaped, FirstTrue(ClosingMarks(s, escaped), i, Len(s)))
ParseChars(s, i, acc) == CharsEscaped(s, i, acc, EscapedMarks(s, i, PlainMarks(s)))

\* the place after the digits that start at i (i itself if none does)
ParseDigits(s, lo, hi) == FirstTrue([k \in 1..hi |-> s[k] \notin 48..57], lo, hi)
DigitsEnd(s, i) == ParseDigits(s, i, Len(s))

\* the value of the digits of an exponent. No string has 2^30 characters
\* (the longest string of the engine has 2^29 - 24), so an exponent of 2^30
\* or more gives the same number (0 or Infinity) whatever digits stand
\* before it, and ExponentCap stands for all of them
ExponentCap == 1073741824
ExponentOf(ds) ==
    IF Len(ds) > 9 THEN ExponentCap
    ELSE Min(SumIn([i \in 1..Len(ds) |-> ds[i] * Pow(10, Len(ds) - i)], 1, Len(ds)),
             ExponentCap)
ExponentValue(chars) == ExponentOf(StripLeadingZeros([i \in 1..Len(chars) |-> chars[i] - 48]))

\* a number literal at i: -? (0 | [1-9][0-9]*) (. [0-9]+)? ([eE] [+-]? [0-9]+)?
\* The digits of the integer part are at j..intEnd - 1, those of the
\* fraction after the point at intEnd, up to fracEnd - 1 (fracEnd = intEnd
\* without a fraction), those of the exponent at expStart..expEnd - 1
\* (expEnd = fracEnd without an exponent).
HasExponent(s, fracEnd) == fracEnd <= Len(s) /\ s[fracEnd] \in {101, 69}
ExponentSigned(s, fracEnd) == fracEnd + 1 <= Len(s) /\ s[fracEnd + 1] \in {43, 45}
ExponentStart(s, fracEnd) == IF ExponentSigned(s, fracEnd) THEN fracEnd + 2 ELSE fracEnd + 1
SignedExponent(s, fracEnd, expStart, expEnd) ==
    IF ~HasExponent(s, fracEnd) THEN 0
    ELSE IF s[fracEnd + 1] = 45 THEN -ExponentValue(SubSeq(s, expStart, expEnd - 1))
    ELSE ExponentValue(SubSeq(s, expStart, expEnd - 1))
NumberChars(s, j, intEnd, fracEnd) == SubSeq(s, j, intEnd - 1) \o SubSeq(s, intEnd + 1, fracEnd - 1)
NumberRead(negative, chars, e, next) ==
    Parsed(NumberOfLiteral(negative, [k \in 1..Len(chars) |-> chars[k] - 48], e), next)
NumberExponent(s, i, j, intEnd, fracEnd, expStart, expEnd) ==
    IF HasExponent(s, fracEnd) /\ expEnd = expStart THEN ParseFail
    ELSE NumberRead(j > i, NumberChars(s, j, intEnd, fracEnd),
                    SignedExponent(s, fracEnd, expStart, expEnd)
                      - (IF fracEnd > intEnd THEN fracEnd - intEnd - 1 ELSE 0),
                    expEnd)
NumberFraction(s, i, j, intEnd, fracEnd) ==
    IF fracEnd = intEnd + 1 THEN ParseFail
    ELSE NumberExponent(s, i, j, intEnd, fracEnd, ExponentStart(s, fracEnd),
                        IF HasExponent(s, fracEnd)
                        THEN DigitsEnd(s, ExponentStart(s, fracEnd)) ELSE fracEnd)
NumberInteger(s, i, j, intEnd) ==
    NumberFraction(s, i, j, intEnd,
                   IF intEnd <= Len(s) /\ s[intEnd] = 46 THEN DigitsEnd(s, intEnd + 1)
                   ELSE intEnd)
NumberAt(s, i, j) ==
    IF j > Len(s) \/ s[j] \notin 48..57 THEN ParseFail
    ELSE NumberInteger(s, i, j, IF s[j] = 48 THEN j + 1 ELSE DigitsEnd(s, j))
ParseNumber(s, i) == NumberAt(s, i, IF s[i] = 45 THEN i + 1 ELSE i)

\* one of the words null, true, false
ParseWord(s, i, word, v) ==
    IF i + Len(word) - 1 <= Len(s) /\ SubSeq(s, i, i + Len(word) - 1) = word
    THEN Parsed(v, i + Len(word)) ELSE ParseFail

\* a key that is an array index: the canonical decimal text of an integer
\* of 0..2^32 - 2; such keys are enumerated first, in ascending order
TextLess(a, b) ==
    \/ Len(a) < Len(b)
    \/ /\ Len(a) = Len(b)
       /\ \E i \in 1..Len(a) : a[i] < b[i] /\ \A j \in 1..(i - 1) : a[j] = b[j]
IsArrayIndex(k) ==
    /\ k # <<>>
    /\ \A i \in 1..Len(k) : k[i] \in 48..57
    /\ k = <<48>> \/ k[1] # 48
    /\ TextLess(k, <<52, 50, 57, 52, 57, 54, 55, 50, 57, 53>>)

\* an object keeps one property per key: a repeated key takes the later
\* value at the place of the first; a new key that is an array index goes
\* among the array indices by its number, any other new key goes last
SetProp(props, k, v) ==
    IF HasKey(props, k)
    THEN [i \in 1..Len(props) |-> IF props[i].k = k THEN Prop(k, v) ELSE props[i]]
    ELSE IF IsArrayIndex(k)
         THEN LET below == Cardinality({i \in 1..Len(props) :
                               IsArrayIndex(props[i].k) /\ TextLess(props[i].k, k)})
              IN  SubSeq(props, 1, below) \o <<Prop(k, v)>> \o SubSeq(props, below + 1, Len(props))
    ELSE Append(props, Prop(k, v))

RECURSIVE ParseValue(_, _)
RECURSIVE ParseItems(_, _, _)
RECURSIVE ParseMembers(_, _, _)

\* the items of a list, from the place after [ or after a comma: the item,
\* then a comma and more items, or the closing bracket; acc ends with the
\* item just read
ItemNext(s, acc, k) ==
    CASE acc = <<>> \/ k > Len(s) -> ParseFail
      [] s[k] = 44 -> ParseItems(s, k + 1, acc)
      [] s[k] = 93 -> Parsed(Arr(acc), k + 1)
      [] OTHER -> ParseFail
ItemRead(s, acc, item) ==
    IF ~item.ok THEN ParseFail
    ELSE ItemNext(s, Append(acc, item.v), SkipSpace(s, item.next))
ParseItems(s, i, acc) == ItemRead(s, acc, ParseValue(s, i))

\* one member of an object from place j: the key, the colon and the value;
\* next is the first place after the value that is not space
MemberValue(s, key, val) ==
    IF ~val.ok THEN ParseFail
    ELSE [ok |-> TRUE, k |-> key, v |-> val.v, next |-> SkipSpace(s, val.next)]
MemberColon(s, key, c) ==
    IF c > Len(s) \/ s[c] # 58 THEN ParseFail
    ELSE MemberValue(s, key, ParseValue(s, c + 1))
MemberKey(s, key) ==
    IF ~key.ok THEN ParseFail
    ELSE MemberColon(s, key.v.s, SkipSpace(s, key.next))
MemberAt(s, j) ==
    IF j > Len(s) \/ s[j] # 34 THEN ParseFail
    ELSE MemberKey(s, ParseChars(s, j + 1, <<>>))

\* the members of an object, from the place after { or after a comma: a
\* member m, then a comma and more members, or the closing brace; props
\* holds the member just read
MemberNext(s, props, m) ==
    CASE ~m.ok -> ParseFail
      [] props = <<>> \/ m.next > Len(s) -> ParseFail
      [] s[m.next] = 44 -> ParseMembers(s, m.next + 1, props)
      [] s[m.next] = 125 -> Parsed(Obj(props), m.next + 1)
      [] OTHER -> ParseFail
MemberRead(s, acc, m) == MemberNext(s, SetProp(acc, m.k, m.v), m)
ParseMembers(s, i, acc) == MemberRead(s, acc, MemberAt(s, SkipSpace(s, i)))

\* a value at the first place from i that is not space; k is the first
\* such place after an opening bracket or brace
ListAt(s, j, k) ==
    IF k <= Len(s) /\ s[k] = 93 THEN Parsed(Arr(<<>>), k + 1)
    ELSE ParseItems(s, j + 1, <<>>)
ObjectAt(s, j, k) ==
    IF k <= Len(s) /\ s[k] = 125 THEN Parsed(Obj(<<>>), k + 1)
    ELSE ParseMembers(s, j + 1, <<>>)
ValueAt(s, j) ==
    IF j > Len(s) THEN ParseFail
    ELSE CASE s[j] = 34 -> ParseChars(s, j + 1, <<>>)
           [] s[j] = 45 \/ s[j] \in 48..57 -> ParseNumber(s, j)
           [] s[j] = 110 -> ParseWord(s, j, S_null, Null)
           [] s[j] = 116 -> ParseWord(s, j, S_true, Bool(TRUE))
           [] s[j] = 102 -> ParseWord(s, j, S_false, Bool(FALSE))
           [] s[j] = 91 -> ListAt(s, j, SkipSpace(s, j + 1))
           [] s[j] = 123 -> ObjectAt(s, j, SkipSpace(s, j + 1))
           [] OTHER -> ParseFail
ParseValue(s, i) == ValueAt(s, SkipSpace(s, i))

\* JSON.parse(text): the value, or a SyntaxError when the text is not one
\* JSON value followed by nothing but space
WholeText(text, r) == IF r.ok /\ SkipSpace(text, r.next) > Len(text) THEN r ELSE ParseFail
JSONParse(text) == WholeText(text, ParseValue(text, 1))

---------------------------------------------------------------------------
(* groupAndSortByID *)

\* row.ID
RowID(row) == GetValue(row, S_ID)

\* line 38: row.ID throws a TypeError when a row is null
GroupingThrows(data) == \E i \in 1..Len(data) : IsNullish(data[i])

\* the key that Map.prototype.set stores: -0 is stored as +0
MapKey(id) == IF IsZero(id) THEN Num(0) ELSE id

\* an ID that is a list or an object: every row holds an object of its
\* own, and Map and Array.includes compare objects by identity
IsReference(v) == v.t \in {"array", "object", "hyperlink"}

\* SameValueZero of the IDs of two different rows
SameValueZero(a, b) == ~IsReference(a) /\ ~IsReference(b) /\ SamePrimitive(a, b)

\* a variant that compares an ID with the previous one only
RECURSIVE UniqueIDsAdjacent(_, _)
UniqueIDsAdjacent(data, acc) ==
    IF data = <<>> THEN acc
    ELSE LET id == RowID(Head(data))
         IN  UniqueIDsAdjacent(Tail(data),
                 IF acc # <<>> /\ SameValueZero(acc[Len(acc)], id) THEN acc
                 ELSE Append(acc, id))

\* uniqueIDs: the ID values in order of first appearance (Array.includes);
\* an ID that is an object is never included yet
RECURSIVE UniqueIDs(_, _)
UniqueIDs(data, acc) ==
    IF data = <<>> THEN acc
    ELSE LET id == RowID(Head(data))
         IN  UniqueIDs(Tail(data),
                       IF \E i \in 1..Len(acc) : SameValueZero(acc[i], id) THEN acc
                       ELSE Append(acc, id))

\* a variant that keeps only the first of the rows without an ID
GroupOfFirstAbsent(data, id) ==
    LET SameID(r) == SameValueZero(RowID(r), id)
        group == SelectSeq(data, SameID)
    IN  IF id.t = "undefined" THEN <<group[1]>> ELSE group

\* groups.get(id) for an ID that is not an object: the rows with that ID,
\* in input order
GroupOf(data, id) ==
    LET SameID(r) == SameValueZero(RowID(r), id)
    IN  SelectSeq(data, SameID)

\* groups.get(id) for the j-th ID that is an object: the one row that holds
\* that object, the j-th of the rows whose ID is an object
GroupOfReference(data, j) ==
    LET HasReference(r) == IsReference(RowID(r))
    IN  <<SelectSeq(data, HasReference)[j]>>

\* the comparator handed to group.sort
CompareRows(a, b) ==
    LET aIsChinese == IsChineseRow(a)
        bIsChinese == IsChineseRow(b)
    IN  IF aIsChinese /\ ~bIsChinese THEN 1
        ELSE IF ~aIsChinese /\ bIsChinese THEN -1
        ELSE 0

\* a variant that is not stable: an element goes before its equals
RECURSIVE InsertSortedUnstable(_, _)
InsertSortedUnstable(sorted, x) ==
    IF sorted = <<>> THEN <<x>>
    ELSE IF CompareRows(Head(sorted), x) >= 0 THEN <<x>> \o sorted
    ELSE <<Head(sorted)>> \o InsertSortedUnstable(Tail(sorted), x)

\* Array.prototype.sort is stable: an element goes before the first element
\* that compares greater than it, after everything that compares equal
RECURSIVE InsertSorted(_, _)
InsertSorted(sorted, x) ==
    IF sorted = <<>> THEN <<x>>
    ELSE IF CompareRows(Head(sorted), x) > 0 THEN <<x>> \o sorted
    ELSE <<Head(sorted)>> \o InsertSorted(Tail(sorted), x)

RECURSIVE SortFrom(_, _)
SortFrom(rest, sorted) ==
    IF rest = <<>> THEN sorted ELSE SortFrom(Tail(rest), InsertSorted(sorted, Head(rest)))

SortGroup(group) == SortFrom(group, <<>>)

\* a variant whose end index is one past the last row of the group
SpanOfPastEnd(startIndex, pushed) == <<startIndex, Len(pushed)>>

\* [startIndex, sortedData.length - 1] once the group is pushed
SpanOf(startIndex, pushed) == <<startIndex, Len(pushed) - 1>>

\* a variant that counts the rows of the group from 1
MarkedRowsFromOne(startIndex, sorted) ==
    {startIndex + j : j \in {k \in 1..Len(sorted) : IsChineseRow(sorted[k])}}

\* lines 71-78: chineseRows.add(startIndex + idx) for the rows of the
\* sorted group that isChinese(JSON.stringify(row)) accepts, idx from 0
MarkedRows(startIndex, sorted) ==
    {startIndex + j - 1 : j \in {k \in 1..Len(sorted) : IsChineseRow(sorted[k])}}

\* the loop over uniqueIDs: append the sorted group, mark its Chinese rows,
\* record its span [startIndex, endIndex]
RECURSIVE GroupLoop(_, _, _)
GroupLoop(data, ids, acc) ==
    IF ids = <<>> THEN acc
    ELSE LET id == Head(ids)
             IsReferenceEntry(e) == IsReference(e.id)
             group == IF IsReference(id)
                      THEN GroupOfReference(data,
                               Len(SelectSeq(acc.idGroups, IsReferenceEntry)) + 1)
                      ELSE GroupOf(data, id)
             sorted == SortGroup(group)
             startIndex == Len(acc.sortedData)
             pushed == acc.sortedData \o sorted
             marked == MarkedRows(startIndex, sorted)
         IN  GroupLoop(data, Tail(ids),
                 [sortedData  |-> pushed,
                  idGroups    |-> Append(acc.idGroups,
                                         [id |-> MapKey(id),
                                          span |-> SpanOf(startIndex, pushed)]),
                  chineseRows |-> acc.chineseRows \cup marked])

\* idGroups is the Map in insertion order: a sequence of [id, span]; the
\* rows are values that are not null
groupAndSortByID(data) ==
    GroupLoop(data, UniqueIDs(data, <<>>),
              [sortedData |-> <<>>, idGroups |-> <<>>, chineseRows |-> {}])

NoGrouping == [sortedData |-> <<>>, idGroups |-> <<>>, chineseRows |-> {}]

---------------------------------------------------------------------------
(* Worksheets (ExcelJS): rows of cells, the merged ranges of column A,      *)
(* the widths of columns 1..7 and the height of the header row             *)

EmptyCell ==
    [value |-> Null, font |-> "none", fill |-> "none", alignment |-> "none", border |-> "none"]

ValueCell(v) == [EmptyCell EXCEPT !.value = IF v.t = "undefined" THEN Null ELSE v]

\* workbook.addWorksheet(name) on success
NewWorksheet(name) ==
    [name |-> name, rows |-> <<>>, merges |-> {}, widths |-> <<>>, headerHeight |-> 0]

\* a list of values whose index 0 is a hole (Undefined in a list stands for
\* a hole: sheet_to_json leaves the index of an empty cell unset, and the
\* lists addDataToWorksheet builds hold no undefined)
StartsWithHole(values) == values # <<>> /\ values[1].t = "undefined"

\* worksheet.addRow(values), that is row.values = values (ExcelJS): a list
\* with an own index 0 is written from column 1 on, index i to column
\* i + 1; a list without it is taken as counted from 1, index i to column
\* i, so that its values stand one column to the left
AddRow(ws, values) ==
    LET placed == IF StartsWithHole(values) THEN Tail(values) ELSE values
    IN  [ws EXCEPT !.rows = Append(@, [i \in 1..Len(placed) |-> ValueCell(placed[i])])]

RECURSIVE AddRows(_, _)
AddRows(ws, grid) ==
    IF grid = <<>> THEN ws ELSE AddRows(AddRow(ws, Head(grid)), Tail(grid))

\* the sequence s with its k-th element replaced by v
SetAt(s, k, v) == [i \in 1..Len(s) |-> IF i = k THEN v ELSE s[i]]

\* row.getCell(col) creates the cells it is asked for
PadRow(row, n) ==
    IF Len(row) >= n THEN row ELSE row \o [i \in 1..(n - Len(row)) |-> EmptyCell]

\* worksheet.getCell / getRow create the rows they are asked for
PadRows(rows, n) ==
    IF Len(rows) >= n THEN rows ELSE rows \o [i \in 1..(n - Len(rows)) |-> <<>>]

\* row.hasValues: some cell of the row is not empty; eachRow visits only such rows
HasValues(row) == \E c \in 1..Len(row) : row[c].value.t # "null"

\* Function.prototype.toString of a built-in function:
\* 'function name() { [native code] }'; Object.prototype.constructor is
\* the function Object
S_function ==
    <<102, 117, 110, 99, 116, 105, 111, 110, 32>>
S_nativeCode ==
    <<40, 41, 32, 123, 32, 91, 110, 97, 116, 105, 118, 101, 32, 99, 111, 100, 101, 93, 32, 125>>
S_Object ==
    <<79, 98, 106, 101, 99, 116>>
FunctionName(f) ==
    IF f.s = S_constructor THEN (IF f.h = <<>> THEN S_Object ELSE f.h) ELSE f.s

\* toString of a prototype object: Object.prototype '[object Object]',
\* Array.prototype and String.prototype '', Number.prototype '0',
\* Boolean.prototype 'false'
PrototypeToString(class) ==
    CASE class \in {S_Array, S_String} -> <<>>
      [] class = S_Number -> <<48>>
      [] class = S_Boolean -> S_false
      [] OTHER -> S_ObjectObject

\* value.toString() throws a TypeError: an object whose own toString
\* member, read from JSON, is no function, or a list that holds one
RECURSIVE ToStringThrows(_)
ToStringThrows(v) ==
    CASE v.t = "object" -> HasKey(v.c, S_toString)
      [] v.t = "array" -> \E i \in 1..Len(v.c) : ToStringThrows(v.c[i])
      [] OTHER -> FALSE

\* value.toString() of a value that is not null or undefined: a list joins
\* the texts of its items with commas, null and undefined items as ''
RECURSIVE ValueToString(_)
ValueToString(v) ==
    CASE v.t = "number" -> NumberToString(v)
      [] v.t = "string" -> v.s
      [] v.t = "boolean" -> IF v.n = 1 THEN S_true ELSE S_false
      [] v.t = "array" ->
            Joined([i \in 1..Len(v.c) |->
                       IF IsNullish(v.c[i]) THEN <<>> ELSE ValueToString(v.c[i])])
      [] v.t = "function" -> S_function \o FunctionName(v) \o S_nativeCode
      [] v.t = "prototype" -> PrototypeToString(v.h)
      [] OTHER -> S_ObjectObject

\* cell.value?.toString() || ""
CellText(cell) == IF IsNullish(cell.value) THEN <<>> ELSE ValueToString(cell.value)

\* String.prototype.trim removes WhiteSpace (tab, VT, FF, space, NBSP, the
\* byte order mark and the category Zs) and LineTerminator (LF, CR, LS, PS)
IsSpace(c) ==
    \/ c \in {9, 10, 11, 12, 13, 32, 160, 5760, 8232, 8233, 8239, 8287, 12288, 65279}
    \/ (c >= 8192 /\ c <= 8202)
RECURSIVE TrimStart(_)
TrimStart(s) == IF s # <<>> /\ IsSpace(Head(s)) THEN TrimStart(Tail(s)) ELSE s
RECURSIVE TrimEnd(_)
TrimEnd(s) ==
    IF s # <<>> /\ IsSpace(s[Len(s)]) THEN TrimEnd(SubSeq(s, 1, Len(s) - 1)) ELSE s
Trim(s) == TrimEnd(TrimStart(s))

---------------------------------------------------------------------------
(* formatWorksheet *)

\* only columns A..G are formatted
MAX_COL == 7

\* a variant that asks for the whole text to be one of the tokens
IsSequenceHeaderExact(text) == text \in {S_id, S_stt, S_xuhao}

\* the test on the lower-cased text of A1
IsSequenceHeader(text) ==
    Includes(text, S_id) \/ Includes(text, S_stt) \/ Includes(text, S_xuhao)

\* worksheet.getCell("A1").value?.toString().toLowerCase() || ""
FirstCellValue(ws) ==
    IF ws.rows = <<>> \/ ws.rows[1] = <<>> THEN <<>>
    ELSE ToLowerCase(CellText(ws.rows[1][1]))

\* worksheet.getCell(`A${r}`), created when missing
WithCellA(ws, r) ==
    LET rows == PadRows(ws.rows, r)
    IN  [ws EXCEPT !.rows = SetAt(rows, r, PadRow(rows[r], 1))]

\* the worksheet with the existing cell (r, c) replaced
SetCell(ws, r, c, cell) ==
    [ws EXCEPT !.rows = SetAt(ws.rows, r, SetAt(ws.rows[r], c, cell))]

\* the sequence value written at a group's first row
SetSequenceCell(ws, r, n) ==
    LET w == WithCellA(ws, r)
    IN  SetCell(w, r, 1, [w.rows[r][1] EXCEPT !.value = Num(n), !.alignment = "center"])

\* a variant that merges one row past the end of the group
MergeCellsAPastEnd(ws, r1, r2) ==
    LET w == WithCellA(ws, r2)
        rows == [r \in 1..Len(w.rows) |->
                    IF r > r1 /\ r <= r2
                    THEN SetAt(PadRow(w.rows[r], 1), 1, w.rows[r1][1])
                    ELSE w.rows[r]]
    IN  [w EXCEPT !.rows = rows, !.merges = @ \cup {<<r1, r2 + 1>>}]

\* worksheet.mergeCells(`A${r1}:A${r2}`): the cells below the first one
\* mirror its value and take its style
MergeCellsA(ws, r1, r2) ==
    LET w == WithCellA(ws, r2)
        rows == [r \in 1..Len(w.rows) |->
                    IF r > r1 /\ r <= r2
                    THEN SetAt(PadRow(w.rows[r], 1), 1, w.rows[r1][1])
                    ELSE w.rows[r]]
    IN  [w EXCEPT !.rows = rows, !.merges = @ \cup {<<r1, r2>>}]

\* a variant that advances the counter by the rows of the group
RECURSIVE NumberGroupsByRow(_, _, _)
NumberGroupsByRow(ws, entries, sttCounter) ==
    IF entries = <<>> THEN ws
    ELSE LET startRowNum == Head(entries).span[1] + 2
             endRowNum == Head(entries).span[2] + 2
             numbered == SetSequenceCell(ws, startRowNum, sttCounter)
             merged == IF endRowNum > startRowNum
                       THEN MergeCellsA(numbered, startRowNum, endRowNum)
                       ELSE numbered
         IN  NumberGroupsByRow(merged, Tail(entries), sttCounter + (endRowNum - startRowNum) + 1)

\* grouped numbering: one value per group at its first row, merged over the group
RECURSIVE NumberGroups(_, _, _)
NumberGroups(ws, entries, sttCounter) ==
    IF entries = <<>> THEN ws
    ELSE LET startRowNum == Head(entries).span[1] + 2
             endRowNum == Head(entries).span[2] + 2
             numbered == SetSequenceCell(ws, startRowNum, sttCounter)
             merged == IF endRowNum > startRowNum
                       THEN MergeCellsA(numbered, startRowNum, endRowNum)
                       ELSE numbered
         IN  NumberGroups(merged, Tail(entries), sttCounter + 1)

\* a variant that numbers a row by its place below the header
NumberRowsByPosition(ws) ==
    LET Visited(r) == r > 1 /\ HasValues(ws.rows[r])
    IN  [ws EXCEPT !.rows =
            [r \in 1..Len(ws.rows) |->
                IF Visited(r)
                THEN SetAt(PadRow(ws.rows[r], 1), 1,
                           [PadRow(ws.rows[r], 1)[1] EXCEPT !.value = Num(r - 1),
                                                            !.alignment = "center"])
                ELSE ws.rows[r]]]

\* flat numbering: eachRow visits the rows that have values; every visited
\* row after the header gets the next counter value in column 1
NumberRows(ws) ==
    LET Visited(r) == r > 1 /\ HasValues(ws.rows[r])
        Counter(r) == Cardinality({q \in 2..r : Visited(q)})
    IN  [ws EXCEPT !.rows =
            [r \in 1..Len(ws.rows) |->
                IF Visited(r)
                THEN SetAt(PadRow(ws.rows[r], 1), 1,
                           [PadRow(ws.rows[r], 1)[1] EXCEPT !.value = Num(Counter(r)),
                                                            !.alignment = "center"])
                ELSE ws.rows[r]]]

\* lines 91-126: relabel A1 and number column A
Renumber(ws, idGroups) ==
    LET w == WithCellA(ws, 1)
    IN  IF IsSequenceHeader(FirstCellValue(w))
        THEN LET labelled == SetCell(w, 1, 1, [w.rows[1][1] EXCEPT !.value = Str(S_STT_LABEL)])
             IN  IF Len(idGroups) > 0
                 THEN NumberGroups(labelled, idGroups, 1)
                 ELSE NumberRows(labelled)
        ELSE w

\* lines 128-146: the header row
FormatHeader(ws) ==
    LET w == WithCellA(ws, 1)
        row == PadRow(w.rows[1], MAX_COL)
        styled == [c \in 1..Len(row) |->
                      IF c <= MAX_COL
                      THEN [row[c] EXCEPT !.font = "header", !.fill = "header",
                                          !.alignment = "centerwrap", !.border = "thin"]
                      ELSE row[c]]
    IN  [w EXCEPT !.headerHeight = 45, !.rows = SetAt(w.rows, 1, styled)]


\* the longest text of a column over all rows, empty cells counting 0
RECURSIVE MaxLength(_, _, _)
MaxLength(rows, col, r) ==
    IF r > Len(rows) THEN 0
    ELSE Max(IF col <= Len(rows[r]) THEN Len(CellText(rows[r][col])) ELSE 0,
             MaxLength(rows, col, r + 1))

\* a variant that widens no column
ColumnWidthPlain(rows, col) == Min(Max(MaxLength(rows, col, 1) + 2, 10), 50)

\* lines 148-164: column widths; column E is widened by 1.5 and rounded
ColumnWidth(rows, col) ==
    LET width == Min(Max(MaxLength(rows, col, 1) + 2, 10), 50)
    IN  IF col = 5 THEN (3 * width + 1) \div 2 ELSE width

\* eachCell with includeEmpty creates the cells of columns 1..7 in every
\* row; a width that a later column already has is not assigned
SetWidths(ws) ==
    [ws EXCEPT !.widths = [col \in 1..Max(Len(ws.widths), MAX_COL) |->
                              IF col <= MAX_COL THEN ColumnWidth(ws.rows, col)
                              ELSE ws.widths[col]],
               !.rows = [r \in 1..Len(ws.rows) |-> PadRow(ws.rows[r], MAX_COL)]]

\* a variant that colours by the parity of the row, whatever the groups
GroupColorByRow(idGroups, rowNumber) == IF rowNumber % 2 = 0 THEN "gray" ELSE "none"

\* lines 166-179: groupColors has the row exactly when a group of odd index holds it
GroupColor(idGroups, rowNumber) ==
    IF \E g \in 1..Len(idGroups) :
          /\ (g - 1) % 2 # 0
          /\ idGroups[g].span[1] + 2 <= rowNumber
          /\ rowNumber <= idGroups[g].span[2] + 2
    THEN "gray" ELSE "none"

\* lines 222-231: the split of a cell text at the first "http"
HttpIndex(cellValue) == IndexOf(cellValue, S_http)
LinkText(cellValue) == Trim(SubSeq(cellValue, 1, HttpIndex(cellValue)))
LinkTarget(cellValue) == Trim(SubSeq(cellValue, HttpIndex(cellValue) + 1, Len(cellValue)))
\* a variant that asks for no text before the link
IsLinkCellAnyHttp(cellValue) == HttpIndex(cellValue) # -1

IsLinkCell(cellValue) ==
    HttpIndex(cellValue) # -1 /\ LinkText(cellValue) # <<>> /\ LinkTarget(cellValue) # <<>>

\* a variant that colours column 1 as well
ChineseFontAppliesAnyColumn(isChineseRow, colNumber) == isChineseRow

\* line 203: isChineseRow && colNumber > 1
ChineseFontApplies(isChineseRow, colNumber) == isChineseRow /\ colNumber > 1

\* lines 187-246: one cell of a data row
FormatDataCell(cell, colNumber, rowNumber, isChineseRow, idGroups) ==
    LET cellValue == CellText(cell)
        isLink == colNumber \in {6, 7} /\ IsLinkCell(cellValue)
        alignment ==
            IF colNumber = 1 \/ colNumber = 5 THEN "center"
            ELSE IF colNumber >= 2 /\ colNumber <= 4 THEN "leftwrap"
            ELSE IF colNumber = 6 \/ colNumber = 7 THEN "leftwrap"
            ELSE "left"
        font ==
            IF isLink THEN "link"
            ELSE IF ChineseFontApplies(isChineseRow, colNumber) THEN "chinese"
            ELSE cell.font
        fill ==
            IF Len(idGroups) > 0
            THEN (IF GroupColor(idGroups, rowNumber) # "none"
                  THEN GroupColor(idGroups, rowNumber) ELSE cell.fill)
            ELSE IF rowNumber % 2 = 0 THEN "gray" ELSE cell.fill
    IN  [value     |-> IF isLink THEN Link(LinkText(cellValue), LinkTarget(cellValue))
                       ELSE cell.value,
         font      |-> font,
         fill      |-> fill,
         alignment |-> alignment,
         border    |-> "thin"]

\* a variant that formats every cell of a data row
FormatDataRowsAllColumns(ws, idGroups, chineseRows) ==
    [ws EXCEPT !.rows =
        [r \in 1..Len(ws.rows) |->
            IF r > 1 /\ HasValues(ws.rows[r])
            THEN LET row == PadRow(ws.rows[r], MAX_COL)
                 IN  [c \in 1..Len(row) |->
                        FormatDataCell(row[c], c, r, (r - 2) \in chineseRows, idGroups)]
            ELSE ws.rows[r]]]

\* lines 181-248: eachRow over the rows that have values, after the header
FormatDataRows(ws, idGroups, chineseRows) ==
    [ws EXCEPT !.rows =
        [r \in 1..Len(ws.rows) |->
            IF r > 1 /\ HasValues(ws.rows[r])
            THEN LET row == PadRow(ws.rows[r], MAX_COL)
                 IN  [c \in 1..Len(row) |->
                        IF c <= MAX_COL
                        THEN FormatDataCell(row[c], c, r, (r - 2) \in chineseRows, idGroups)
                        ELSE row[c]]
            ELSE ws.rows[r]]]

formatWorksheet(ws, idGroups, chineseRows) ==
    FormatDataRows(SetWidths(FormatHeader(Renumber(ws, idGroups))), idGroups, chineseRows)

\* worksheet.mergeCells throws (ExcelJS: cannot merge already merged cells)
\* when its range meets a merged range; the loop of lines 101-115 over the
\* groups, with the ranges merged so far
RECURSIVE MergeLoopThrows(_, _)
MergeLoopThrows(merges, entries) ==
    IF entries = <<>> THEN FALSE
    ELSE LET r1 == Head(entries).span[1] + 2
             r2 == Head(entries).span[2] + 2
         IN  IF r2 > r1
             THEN \/ \E m \in merges : m[1] <= r2 /\ r1 <= m[2]
                  \/ MergeLoopThrows(merges \cup {<<r1, r2>>}, Tail(entries))
             ELSE MergeLoopThrows(merges, Tail(entries))

\* a cell of columns 1..7 whose value.toString() throws, once column A is
\* numbered (lines 153 and 219)
CellTextThrows(ws) ==
    \E r \in 1..Len(ws.rows) : \E c \in 1..Min(Len(ws.rows[r]), MAX_COL) :
        ToStringThrows(ws.rows[r][c].value)

\* the call ends by an exception: A1.value.toString() throws (line 93), a
\* merge of the loop does, or the text of a cell of columns 1..7 does
formatWorksheetThrows(ws, idGroups) ==
    \/ ws.rows # <<>> /\ ws.rows[1] # <<>> /\ ToStringThrows(ws.rows[1][1].value)
    \/ /\ IsSequenceHeader(FirstCellValue(WithCellA(ws, 1)))
       /\ Len(idGroups) > 0
       /\ MergeLoopThrows(ws.merges, idGroups)
    \/ CellTextThrows(Renumber(ws, idGroups))

\* the loop of lines 101-115 up to the merge that throws: the group of
\* that merge has its number, and is not merged
RECURSIVE NumberGroupsUntilThrow(_, _, _)
NumberGroupsUntilThrow(ws, entries, sttCounter) ==
    IF entries = <<>> THEN ws
    ELSE LET startRowNum == Head(entries).span[1] + 2
             endRowNum == Head(entries).span[2] + 2
             numbered == SetSequenceCell(ws, startRowNum, sttCounter)
         IN  IF endRowNum <= startRowNum
             THEN NumberGroupsUntilThrow(numbered, Tail(entries), sttCounter + 1)
             ELSE IF \E m \in ws.merges : m[1] <= endRowNum /\ startRowNum <= m[2]
             THEN numbered
             ELSE NumberGroupsUntilThrow(MergeCellsA(numbered, startRowNum, endRowNum),
                                         Tail(entries), sttCounter + 1)

\* the loop of lines 149-164 up to the cell whose value.toString() throws
\* (line 153): the columns before that cell's have their widths and their
\* cells in every row, the column of the cell has its cells down to it
WidthsUntilThrow(ws) ==
    LET Throws(r, c) == c <= Len(ws.rows[r]) /\ ToStringThrows(ws.rows[r][c].value)
        cols == {c \in 1..MAX_COL : \E r \in 1..Len(ws.rows) : Throws(r, c)}
        col == CHOOSE c \in cols : \A d \in cols : c <= d
        row == CHOOSE r \in 1..Len(ws.rows) :
                   Throws(r, col) /\ \A q \in 1..(r - 1) : ~Throws(q, col)
    IN  [ws EXCEPT !.widths = [c \in 1..Max(Len(ws.widths), col - 1) |->
                                  IF c < col THEN ColumnWidth(ws.rows, c) ELSE ws.widths[c]],
                   !.rows = [r \in 1..Len(ws.rows) |->
                                PadRow(ws.rows[r], IF r <= row THEN col ELSE col - 1)]]

\* the worksheet as a call that throws leaves it
formatWorksheetPartial(ws, idGroups) ==
    LET w == WithCellA(ws, 1)
    IN  IF ToStringThrows(w.rows[1][1].value) THEN w
        ELSE IF /\ IsSequenceHeader(FirstCellValue(w))
                /\ Len(idGroups) > 0
                /\ MergeLoopThrows(ws.merges, idGroups)
        THEN NumberGroupsUntilThrow(
                 SetCell(w, 1, 1, [w.rows[1][1] EXCEPT !.value = Str(S_STT_LABEL)]), idGroups, 1)
        ELSE WidthsUntilThrow(FormatHeader(Renumber(ws, idGroups)))

\* the call as a whole: whether it throws, and the worksheet it leaves
FormatOutcome(ws, idGroups, chineseRows) ==
    IF formatWorksheetThrows(ws, idGroups)
    THEN [threw |-> TRUE, sheet |-> formatWorksheetPartial(ws, idGroups)]
    ELSE [threw |-> FALSE, sheet |-> formatWorksheet(ws, idGroups, chineseRows)]

---------------------------------------------------------------------------
(* Workbooks (ExcelJS) *)

SheetNamesOf(wb) == [i \in 1..Len(wb) |-> wb[i].name]

\* workbook.getWorksheet(name): a sheet whose name is exactly that string
HasWorksheet(wb, name) == \E i \in 1..Len(wb) : wb[i].name = name

\* the name a worksheet ends up with: ExcelJS cuts names at 31 characters
StoredName(name) == IF Len(name) > 31 THEN SubSeq(name, 1, 31) ELSE name

\* workbook.addWorksheet(name) throws (ExcelJS worksheet-name rules): empty
\* name, the reserved name History, one of * ? : / \ [ ], a leading or
\* trailing quote, or a name equal, ignoring case, to an existing sheet's
AddWorksheetThrows(wb, name) ==
    \/ name = <<>>
    \/ name = S_History
    \/ \E i \in 1..Len(name) : name[i] \in {42, 63, 58, 47, 92, 91, 93}
    \/ name[1] = 39 \/ name[Len(name)] = 39
    \/ \E i \in 1..Len(wb) : ToLowerCase(wb[i].name) = ToLowerCase(StoredName(name))

---------------------------------------------------------------------------
(* POST /api/excel/create *)

\* a variant that takes every key of the first row
HeadersOfAll(sortedData) == OwnKeys(sortedData[1])

\* Object.keys(sortedData[0]).slice(0, 7)
HeadersOf(sortedData) ==
    LET allHeaders == OwnKeys(sortedData[1])
    IN  SubSeq(allHeaders, 1, Min(Len(allHeaders), 7))

\* a variant that leaves a missing value missing
RowValuesKeepNull(headers, row) == [i \in 1..Len(headers) |-> GetValue(row, headers[i])]

\* headers.map(h => row[h] ?? "")
RowValues(headers, row) ==
    [i \in 1..Len(headers) |->
        IF IsNullish(GetValue(row, headers[i])) THEN Str(<<>>) ELSE GetValue(row, headers[i])]

\* lines 336-347: the worksheet added under the name, with its header row
\* and one row per row of sortedData
FillWorksheet(sheetName, g) ==
    LET headers == HeadersOf(g.sortedData)
        bilingualHeaders == [i \in 1..Len(headers) |-> getBilingualHeader(headers[i])]
        withHeader == AddRow(NewWorksheet(StoredName(sheetName)), bilingualHeaders)
    IN  AddRows(withHeader,
                [i \in 1..Len(g.sortedData) |-> RowValues(headers, g.sortedData[i])])

\* lines 336-349: the worksheet, and whether formatWorksheet threw
AddData(sheetName, g) == FormatOutcome(FillWorksheet(sheetName, g), g.idGroups, g.chineseRows)

\* a variant that takes no list for a list
DataOfValueNoList(v) ==
    CASE v.t = "string" -> [kind |-> "string", rows |-> <<>>, text |-> v.s]
      [] OTHER -> [kind |-> "other", rows |-> <<>>, text |-> <<>>]

\* the data of a sheet definition: a list of rows (the values of the list,
\* whatever they are), a string, or a value that is neither (a number, an
\* object, null, undefined)
ArrayData(rows) == [kind |-> "array", rows |-> rows, text |-> <<>>]
StringData(text) == [kind |-> "string", rows |-> <<>>, text |-> text]
OtherData == [kind |-> "other", rows |-> <<>>, text |-> <<>>]

\* a JavaScript value as the data of a sheet definition
DataOfValue(v) ==
    CASE v.t = "array" -> ArrayData(v.c)
      [] v.t = "string" -> StringData(v.s)
      [] OTHER -> OtherData

\* a sheet definition { name, data } with a string for name ('' when it
\* has none); fault tells what else the element of body.sheets is:
\*   "element": null, so that sheet.name throws a TypeError (line 361);
\*   "name": its name is truthy and no string, so that addWorksheet throws;
\*           value is that name
SheetDef(name, data) == [name |-> name, data |-> data, fault |-> "none"]
NullSheetDef == [name |-> <<>>, data |-> OtherData, fault |-> "element"]
NamedBy(value, data) == [name |-> <<>>, data |-> data, fault |-> "name", value |-> value]

\* an element of body.sheets read as { name, data }: sheet.name and
\* sheet.data of any value
SheetDefOfRow(sheet) ==
    IF IsNullish(sheet) THEN NullSheetDef
    ELSE IF GetValue(sheet, S_name).t # "string" /\ Truthy(GetValue(sheet, S_name))
    THEN NamedBy(GetValue(sheet, S_name), DataOfValue(GetValue(sheet, S_data)))
    ELSE SheetDef(IF GetValue(sheet, S_name).t = "string" THEN GetValue(sheet, S_name).s
                  ELSE <<>>,
                  DataOfValue(GetValue(sheet, S_data)))

\* lines 353-372: the format the handler takes the body for. An object
\* whose key "sheets" holds a list is walked as Format 2, the elements of
\* that list being the sheet definitions
Handled(body) ==
    IF body.shape = "keyed"
       /\ \E i \in 1..Len(body.sheets) :
              body.sheets[i].name = S_sheets /\ body.sheets[i].data.kind = "array"
    THEN LET i == CHOOSE i \in 1..Len(body.sheets) : body.sheets[i].name = S_sheets
             elements == body.sheets[i].data.rows
         IN  [shape |-> "sheets",
              sheets |-> [e \in 1..Len(elements) |-> SheetDefOfRow(elements[e])]]
    ELSE body

\* lines 362-366 and 375-381: the data handed to addDataToWorksheet; a
\* string is parsed, and JSON.parse may throw
ResolveData(body, k) ==
    LET data == body.sheets[k].data
        parsed == JSONParse(data.text)
    IN  IF body.shape # "array" /\ data.kind = "string"
        THEN [ok |-> parsed.ok, data |-> DataOfValue(parsed.v)]
        ELSE IF body.shape = "keyed" /\ data.kind # "array"
        THEN [ok |-> TRUE, data |-> ArrayData(<<>>)]
        ELSE [ok |-> TRUE, data |-> data]

\* !Array.isArray(data) || data.length === 0
IsEmptyData(data) == data.kind # "array" \/ data.rows = <<>>

\* the name a sheet definition is added under
\* Format 1: "Sheet1"; Format 2: sheet.name || `Sheet${n + 1}`; Format 3: the key.
\* It is a text, or the value of a name that is truthy and no string
CreateSheetName(body, k, wb) ==
    IF body.shape = "array" THEN S_Sheet1
    ELSE IF body.sheets[k].fault = "name" THEN body.sheets[k].value
    ELSE IF body.shape = "sheets" /\ body.sheets[k].name = <<>>
         THEN S_Sheet \o NumToStr(Len(wb) + 1)
         ELSE body.sheets[k].name

\* lines 360-366 and 374-381 throw before addDataToWorksheet is called:
\* the element of body.sheets is null, or the data string is no JSON text
DefinitionThrows(body, k) ==
    body.sheets[k].fault = "element" \/ ~ResolveData(body, k).ok

\* workbook.addWorksheet(sheetName) throws for the k-th definition
AddSheetThrows(body, k, wb) ==
    body.sheets[k].fault = "name" \/ AddWorksheetThrows(wb, CreateSheetName(body, k, wb))

\* lastAdd.outcome: "added" (the sheet was added and formatted), "threw"
\* (addWorksheet threw), "unformatted" (the sheet was added and
\* formatWorksheet threw)
NoAdd == [wanted |-> <<>>, before |-> <<>>, outcome |-> "none", name |-> <<>>]
NoNaming == [newSheetName |-> <<>>, finalSheetName |-> <<>>, counter |-> 0]
NoResponse == [status |-> 0, sent |-> FALSE]
\* no request is being served beside the one at hand
NoServer ==
    [requests |-> <<>>, at |-> <<>>, running |-> 0, refs |-> <<>>, heap |-> <<>>,
     frames |-> <<>>, responses |-> <<>>, overlapped |-> <<>>]
NoData == [data |-> <<>>, sortedData |-> <<>>, idGroups |-> <<>>, chineseRows |-> {}]

\* lines 342-349 for the grouped rows g: the sheet is added, filled and
\* formatted, or an exception ends the request
CreateAdd(body, g) ==
    LET sheetName == CreateSheetName(body, idx[1], workbook)
        Outcome(o, name) == [wanted |-> sheetName, before |-> SheetNamesOf(workbook),
                             outcome |-> o, name |-> name]
        Added(built) ==
            /\ workbook' = Append(workbook, built.sheet)
            /\ IF built.threw
               THEN /\ lastAdd' = Outcome("unformatted", StoredName(sheetName))
                    /\ response' = [status |-> 500, sent |-> FALSE]
                    /\ pc' = "done"
                    /\ UNCHANGED idx
               ELSE /\ lastAdd' = Outcome("added", StoredName(sheetName))
                    /\ idx' = <<idx[1] + 1, 1>>
                    /\ UNCHANGED <<pc, response>>
    IN  IF AddSheetThrows(body, idx[1], workbook)
        THEN /\ lastAdd' = Outcome("threw", <<>>)
             /\ response' = [status |-> 500, sent |-> FALSE]
             /\ pc' = "done"
             /\ UNCHANGED <<workbook, idx>>
        ELSE Added(AddData(sheetName, g))

\* one sheet definition of the payload goes through lines 360-368 (or
\* 374-383, or 355) and addDataToWorksheet; an exception goes to the catch
\* clause (lines 398-401)
CreateSheet ==
    /\ endpoint = "create" /\ pc = "sheets" /\ idx[1] <= Len(Handled(req).sheets)
    /\ LET body == Handled(req)
           data == ResolveData(body, idx[1]).data
           WithGroups(g) ==
               /\ grp' = [data |-> data.rows, sortedData |-> g.sortedData,
                          idGroups |-> g.idGroups, chineseRows |-> g.chineseRows]
               /\ CreateAdd(body, g)
       IN  IF DefinitionThrows(body, idx[1])
           THEN /\ response' = [status |-> 500, sent |-> FALSE]
                /\ pc' = "done"
                /\ UNCHANGED <<workbook, idx, grp, lastAdd>>
           ELSE IF IsEmptyData(data)
           THEN /\ idx' = <<idx[1] + 1, 1>>
                /\ UNCHANGED <<pc, workbook, grp, lastAdd, response>>
           ELSE IF GroupingThrows(data.rows)
           THEN /\ response' = [status |-> 500, sent |-> FALSE]
                /\ pc' = "done"
                /\ UNCHANGED <<workbook, idx, grp, lastAdd>>
           ELSE WithGroups(groupAndSortByID(data.rows))
    /\ UNCHANGED <<dictionary, server, outputBuffer, endpoint, req, naming>>

\* a variant that writes the workbook whether or not it has a sheet
CreateRespondAlways ==
    /\ endpoint = "create" /\ pc = "sheets" /\ idx[1] > Len(Handled(req).sheets)
    /\ pc' = "write"
    /\ UNCHANGED <<dictionary, server, outputBuffer,
                   endpoint, req, workbook, idx, naming, grp, lastAdd, response>>

\* lines 387-393, after the last sheet definition: 400 without sheets, else
\* workbook.xlsx.writeBuffer() is called and the handler awaits it
CreateRespond ==
    /\ endpoint = "create" /\ pc = "sheets" /\ idx[1] > Len(Handled(req).sheets)
    /\ IF Len(workbook) = 0
       THEN /\ response' = [status |-> 400, sent |-> FALSE]
            /\ pc' = "done"
       ELSE /\ pc' = "write"
            /\ UNCHANGED response
    /\ UNCHANGED <<dictionary, server, outputBuffer,
                   endpoint, req, workbook, idx, naming, grp, lastAdd>>

\* workbook.xlsx.writeBuffer() is code of ExcelJS: its promise resolves with
\* the bytes or rejects, and either may happen. An awaited promise that
\* rejects throws at the await, inside the try block
WriteSettles(settled) ==
    /\ outputBuffer' = settled
    /\ response' = IF settled = "bytes" THEN [status |-> 200, sent |-> TRUE]
                   ELSE [status |-> 500, sent |-> FALSE]
    /\ pc' = "done"

\* lines 393-401: writeBuffer has resolved and the bytes are sent (395-397),
\* or it has rejected and the catch clause answers 500 (398-401)
CreateSend ==
    /\ endpoint = "create" /\ pc = "write"
    /\ \E settled \in {"bytes", "rejected"} : WriteSettles(settled)
    /\ UNCHANGED <<server, dictionary, endpoint, req, workbook, idx, naming, grp, lastAdd>>

---------------------------------------------------------------------------
(* POST /api/excel/process *)

\* req.body.sheetNames ? (Array.isArray(..) ? .. : [..]) : []
SheetNamesArray(body) ==
    IF body.kind = "array" THEN body.names
    ELSE IF body.kind = "string" /\ body.names[1] # <<>> THEN <<body.names[1]>>
    ELSE <<>>

\* file.originalname.replace(/\.[^/.]+$/, ""): cut the last dot and what
\* follows it when that is at least one character and holds no slash
StripExtension(name) ==
    LET dots == {i \in 1..Len(name) : name[i] = 46}
    IN  IF dots = {} THEN name
        ELSE LET last == CHOOSE i \in dots : \A j \in dots : j <= i
             IN  IF last < Len(name) /\ \A j \in (last + 1)..Len(name) : name[j] # 47
                 THEN SubSeq(name, 1, last - 1)
                 ELSE name

\* a variant that falls back to the file name only when no sheet is named
WantedSheetNameUnnamed(sheetNames, files, fileIndex, originalSheetName) ==
    IF fileIndex <= Len(sheetNames) /\ sheetNames[fileIndex] # <<>>
    THEN sheetNames[fileIndex]
    ELSE IF Len(files) > 1 /\ \A i \in 1..Len(sheetNames) : sheetNames[i] = <<>>
    THEN StripExtension(files[fileIndex].originalname)
    ELSE originalSheetName

\* sheetNames[fileIndex] || (files.length > 1 ? stripped file name : originalSheetName)
WantedSheetName(sheetNames, files, fileIndex, originalSheetName) ==
    IF fileIndex <= Len(sheetNames) /\ sheetNames[fileIndex] # <<>>
    THEN sheetNames[fileIndex]
    ELSE IF Len(files) > 1 THEN StripExtension(files[fileIndex].originalname)
    ELSE originalSheetName

\* `${newSheetName}_${counter}`
Suffixed(newSheetName, counter) == newSheetName \o <<95>> \o NumToStr(counter)

\* the sheet after the current one, in file order then in-file order
NextSheet(files, at) ==
    IF at[2] < Len(files[at[1]].sheets) THEN <<at[1], at[2] + 1>> ELSE <<at[1] + 1, 1>>

\* a variant that answers a request without files with an empty spreadsheet
ProcessStartAccepting ==
    /\ endpoint = "process" /\ pc = "start"
    /\ IF Len(req.files) = 0
       THEN /\ response' = [status |-> 200, sent |-> TRUE]
            /\ pc' = "done"
       ELSE /\ pc' = "file"
            /\ UNCHANGED response
    /\ UNCHANGED <<dictionary, server, outputBuffer,
                   endpoint, req, workbook, idx, naming, grp, lastAdd>>

\* no file: 400 and nothing else; otherwise a fresh workbook and the loops
ProcessStart ==
    /\ endpoint = "process" /\ pc = "start"
    /\ IF Len(req.files) = 0
       THEN /\ response' = [status |-> 400, sent |-> FALSE]
            /\ pc' = "done"
       ELSE /\ pc' = "file"
            /\ UNCHANGED response
    /\ UNCHANGED <<dictionary, server, outputBuffer,
                   endpoint, req, workbook, idx, naming, grp, lastAdd>>

\* a variant that sends what it has when a file cannot be read
ProcessReadFilePartial ==
    /\ endpoint = "process" /\ pc = "file"
    /\ IF req.files[idx[1]].corrupt
       THEN /\ response' = [status |-> 200, sent |-> TRUE]
            /\ pc' = "done"
       ELSE /\ pc' = "sheet"
            /\ UNCHANGED response
    /\ UNCHANGED <<dictionary, server, outputBuffer,
                   endpoint, req, workbook, idx, naming, grp, lastAdd>>

\* line 286: XLSX.read(file.buffer) at the start of a file's turn; it throws
\* on bytes that are no spreadsheet
ProcessReadFile ==
    /\ endpoint = "process" /\ pc = "file"
    /\ IF req.files[idx[1]].corrupt
       THEN /\ response' = [status |-> 500, sent |-> FALSE]
            /\ pc' = "done"
       ELSE /\ pc' = "sheet"
            /\ UNCHANGED response
    /\ UNCHANGED <<dictionary, server, outputBuffer,
                   endpoint, req, workbook, idx, naming, grp, lastAdd>>

\* lines 292-296: the wanted name of the current sheet, the loop counter at 1
ProcessNameSheet ==
    /\ endpoint = "process" /\ pc = "sheet"
    /\ LET newSheetName == WantedSheetName(SheetNamesArray(req.sheetNames), req.files, idx[1],
                                           req.files[idx[1]].sheets[idx[2]].name)
       IN  naming' = [newSheetName |-> newSheetName, finalSheetName |-> newSheetName,
                      counter |-> 1]
    /\ pc' = "rename"
    /\ UNCHANGED <<dictionary, server, outputBuffer,
                   endpoint, req, workbook, idx, grp, lastAdd, response>>

\* lines 297-299: one turn of the while loop
ProcessRename ==
    /\ endpoint = "process" /\ pc = "rename"
    /\ HasWorksheet(workbook, naming.finalSheetName)
    /\ naming' = [naming EXCEPT !.finalSheetName = Suffixed(naming.newSheetName, naming.counter),
                                !.counter = @ + 1]
    /\ UNCHANGED <<dictionary, server, outputBuffer,
                   endpoint, req, pc, workbook, idx, grp, lastAdd, response>>

\* lines 301-302: the loop has ended; add the sheet and its rows
ProcessAddSheet ==
    /\ endpoint = "process" /\ pc = "rename"
    /\ ~HasWorksheet(workbook, naming.finalSheetName)
    /\ IF AddWorksheetThrows(workbook, naming.finalSheetName)
       THEN /\ lastAdd' = [wanted |-> naming.newSheetName, before |-> SheetNamesOf(workbook),
                           outcome |-> "threw", name |-> <<>>]
            /\ response' = [status |-> 500, sent |-> FALSE]
            /\ pc' = "done"
            /\ UNCHANGED <<workbook, idx>>
       ELSE /\ lastAdd' = [wanted |-> naming.newSheetName, before |-> SheetNamesOf(workbook),
                           outcome |-> "added", name |-> StoredName(naming.finalSheetName)]
            /\ workbook' = Append(workbook,
                                  AddRows(NewWorksheet(StoredName(naming.finalSheetName)),
                                          req.files[idx[1]].sheets[idx[2]].grid))
            /\ idx' = NextSheet(req.files, idx)
            /\ pc' = IF NextSheet(req.files, idx)[1] > Len(req.files) THEN "format"
                     ELSE IF NextSheet(req.files, idx)[1] # idx[1] THEN "file"
                     ELSE "sheet"
            /\ UNCHANGED response
    /\ UNCHANGED <<dictionary, server, outputBuffer, endpoint, req, naming, grp>>

\* workbook.eachSheet(formatWorksheet) from the i-th sheet on: the sheets
\* formatted in order, up to the first one whose call throws
RECURSIVE EachSheet(_, _, _)
RECURSIVE FormatNext(_, _, _)
EachSheet(wb, i, out) ==
    IF out.threw \/ i > Len(wb) THEN [threw |-> out.threw, workbook |-> wb]
    ELSE FormatNext(wb, i, FormatOutcome(wb[i], <<>>, {}))
FormatNext(wb, i, out) == EachSheet(SetAt(wb, i, out.sheet), i + 1, out)

\* line 306
FormatAll(wb) == EachSheet(wb, 1, [threw |-> FALSE, sheet |-> <<>>])

\* lines 306-308: format every sheet without grouping metadata, call
\* workbook.xlsx.writeBuffer() and await it; an exception of formatWorksheet
\* goes to the catch clause (lines 313-316)
ProcessFormatSend ==
    /\ endpoint = "process" /\ pc = "format"
    /\ LET Answer(out) ==
               /\ workbook' = out.workbook
               /\ IF out.threw
                  THEN /\ lastAdd' = [lastAdd EXCEPT !.outcome = "unformatted"]
                       /\ response' = [status |-> 500, sent |-> FALSE]
                       /\ pc' = "done"
                  ELSE /\ pc' = "write"
                       /\ UNCHANGED <<lastAdd, response>>
       IN  Answer(FormatAll(workbook))
    /\ UNCHANGED <<dictionary, server, outputBuffer, endpoint, req, idx, naming, grp>>

\* lines 308-316: writeBuffer has resolved and the bytes are sent (310-312),
\* or it has rejected and the catch clause answers 500 (313-316)
ProcessSend ==
    /\ endpoint = "process" /\ pc = "write"
    /\ \E settled \in {"bytes", "rejected"} : WriteSettles(settled)
    /\ UNCHANGED <<server, dictionary, endpoint, req, workbook, idx, naming, grp, lastAdd>>

---------------------------------------------------------------------------
(* The requests the model serves *)

SeqsUpTo(S, n) == UNION {[1..k -> S] : k \in 0..n}
SeqsFromTo(S, m, n) == UNION {[1..k -> S] : k \in m..n}

\* row objects of a JSON payload: {"ID":1,"Name":"A"}, {"Name":"A"} (no ID),
\* {"ID":null,"Name":"B"}, {"Name":"A","ID":1} (ID not the first key), {"STT":7,"Name":"\u7532"}
CreateRowSet ==
    {Obj(<<Prop(S_ID, id), Prop(S_Name, Str(n))>>) :
        id \in {Num(1), Num(2)}, n \in {S_A, S_B, S_Jia}}
    \cup {Obj(<<Prop(S_Name, Str(n))>>) : n \in {S_A, S_B, S_Jia}}
    \cup {Obj(<<Prop(S_ID, Null), Prop(S_Name, Str(S_B))>>),
          Obj(<<Prop(S_Name, Str(S_A)), Prop(S_ID, Num(1))>>),
          Obj(<<Prop(S_STT, Num(7)), Prop(S_Name, Str(S_Jia))>>)}

\* rows with eight keys: links in the fifth to eighth values
WideRowA ==
    Obj(<<Prop(S_ID, Num(1)), Prop(S_Name, Str(S_A)), Prop(S_a, Str(S_a)), Prop(S_b, Str(S_b)),
          Prop(S_A, Str(S_DecreeLink)), Prop(S_B, Str(S_DecreeLink)),
          Prop(S_Link, Str(S_BareLink)), Prop(S_X, Str(S_DecreeLink))>>)
WideRowB ==
    Obj(<<Prop(S_ID, Num(2)), Prop(S_Name, Str(S_Jia)), Prop(S_a, Str(S_a)), Prop(S_b, Str(S_b)),
          Prop(S_A, Str(S_a)), Prop(S_B, Str(S_SpaceLink)),
          Prop(S_Link, Str(S_DecreeLink)), Prop(S_X, Str(S_b))>>)
\* a row whose only CJK character is in a key: {"ID":1,"\u7532":"A"}
KeyJiaRow == Obj(<<Prop(S_ID, Num(1)), Prop(S_Jia, Str(S_A))>>)
\* a row with a key that every object inherits: {"constructor":1,"ID":1}
ConstructorRow == Obj(<<Prop(S_constructor, Num(1)), Prop(S_ID, Num(1))>>)
\* a row whose only CJK character is inside a list: {"ID":2,"Name":["\u7532"]}
NestedJiaRow == Obj(<<Prop(S_ID, Num(2)), Prop(S_Name, Arr(<<Str(S_Jia)>>))>>)
\* these, a short row, and the row object without keys
WideRowSet ==
    {WideRowA, WideRowB, Obj(<<Prop(S_Name, Str(S_A))>>), KeyJiaRow, ConstructorRow,
     NestedJiaRow, Obj(<<>>)}

\* values of a list of rows that are no plain row objects: the text "abc",
\* the list [1,"\u7532"], and a row whose value B has a member toString that
\* is no function: {"ID":1,"B":{"toString":1}}
TextRow == Str(S_abc)
ListRow == Arr(<<Num(1), Str(S_Jia)>>)
ToStringRow == Obj(<<Prop(S_ID, Num(1)), Prop(S_B, Obj(<<Prop(S_toString, Num(1))>>))>>)
\* these, null, and a plain row
OddRowSet == {Null, TextRow, ListRow, ToStringRow, Obj(<<Prop(S_ID, Num(1)), Prop(S_Name, Str(S_A))>>)}

\* Format 1: a bare list of rows
ArrayBodies ==
    {[shape |-> "array", sheets |-> <<SheetDef(S_Sheet1, ArrayData(rows))>>] :
        rows \in SeqsUpTo(CreateRowSet, MaxRows)
                    \cup SeqsFromTo(WideRowSet, 1, MaxRows)
                    \cup SeqsFromTo(OddRowSet, 1, MaxRows)}

OneRow == <<Obj(<<Prop(S_ID, Num(1)), Prop(S_Name, Str(S_A))>>)>>

\* an element of body.sheets whose name is a number: {"name":5,"data":[row]}
NumberNameDef == NamedBy(Num(5), ArrayData(OneRow))

SheetDefs ==
    {SheetDef(n, d) :
        n \in {S_X, S_x, <<>>, S_sheets},
        d \in {ArrayData(<<>>), OtherData, ArrayData(OneRow), ArrayData(<<Null>>),
               StringData(JSONStringifyRows(OneRow)), StringData(S_oops)}}

\* Format 2: { sheets: [{ name, data }] }; Format 3: an object keyed by sheet
\* name, whose keys are distinct
SheetsBodies ==
    {[shape |-> "sheets", sheets |-> s] :
        s \in SeqsFromTo(SheetDefs \cup {NullSheetDef, NumberNameDef}, 0, MaxSheetDefs)}
KeyedBodies ==
    {[shape |-> "keyed", sheets |-> s] :
        s \in {t \in SeqsFromTo(SheetDefs, 0, MaxSheetDefs) :
                  \A i, j \in 1..Len(t) : i # j => t[i].name # t[j].name}}

CreateBodies == ArrayBodies \cup SheetsBodies \cup KeyedBodies

\* a header and rows of eight columns: links in the fifth to eighth cells
WideHeader ==
    <<Str(S_STT), Str(S_Name), Str(S_a), Str(S_b), Str(S_A), Str(S_B), Str(S_Link), Str(S_X)>>
WideGridRowA ==
    <<Num(5), Str(S_a), Str(S_a), Str(S_b), Str(S_DecreeLink), Str(S_DecreeLink),
      Str(S_BareLink), Str(S_DecreeLink)>>
WideGridRowB ==
    <<Num(7), Str(S_b), Undefined, Undefined, Str(S_SpaceLink), Str(S_SpaceLink),
      Str(S_DecreeLink), Str(S_b)>>
\* a row of eight columns whose first cell is empty
WideGridRowC ==
    <<Undefined, Str(S_b), Str(S_a), Str(S_b), Str(S_a), Str(S_b),
      Str(S_BareLink), Str(S_DecreeLink)>>

\* uploaded grids (sheet_to_json with header: 1): a header row and data rows;
\* a hole in a row is an empty cell, an empty list is a blank row
GridHeaders ==
    { <<Str(S_ID), Str(S_Name)>>,
      <<Undefined, Str(S_ID)>>,
      <<Str(S_No), Str(S_Name)>>,
      <<Str(S_Video), Str(S_Name)>>,
      <<Str(S_SoThuTu), Str(S_Name)>>,
      <<Str(S_Name), Str(S_ID)>>,
      <<Str(S_STT), Str(S_Name), Str(S_a), Str(S_b), Str(S_a), Str(S_Link)>>,
      WideHeader }

GridRowSet ==
    { <<>>,
      <<Num(5), Str(S_a)>>,
      <<Num(7), Str(S_b)>>,
      <<Undefined, Str(S_a)>>,
      <<Num(5), Str(S_a), Undefined, Undefined, Undefined, Str(S_DecreeLink)>>,
      WideGridRowA,
      WideGridRowB,
      WideGridRowC }

Grids ==
    {<<>>} \cup {<<h>> \o rows : h \in GridHeaders, rows \in SeqsUpTo(GridRowSet, MaxGridRows)}

NoSheetNames == [kind |-> "absent", names |-> <<>>]

\* one file with one sheet: the grid varies
GridRequests ==
    {[files |-> <<[originalname |-> S_XFile, sheets |-> <<[name |-> S_S, grid |-> g]>>,
                   corrupt |-> FALSE]>>,
      sheetNames |-> NoSheetNames] : g \in Grids}

SmallGrid == << <<Str(S_ID), Str(S_Name)>>, <<Num(5), Str(S_a)>> >>

UploadedFiles ==
    {[originalname |-> n, sheets |-> [i \in 1..Len(s) |-> [name |-> s[i], grid |-> SmallGrid]],
      corrupt |-> FALSE] :
        n \in {S_XFile, S_xFile},
        s \in {<<S_X>>, <<S_X_1>>, <<S_x, S_X_1>>}}

\* a file whose bytes are no spreadsheet
CorruptFile == [originalname |-> S_XFile, sheets |-> <<>>, corrupt |-> TRUE]

SheetNamesFields ==
    { NoSheetNames,
      [kind |-> "string", names |-> <<S_X>>],
      [kind |-> "array", names |-> <<S_X_1, S_X>>],
      [kind |-> "array", names |-> <<<<>>, S_X>>] }

\* up to MaxFiles files: the file names, sheet names and sheetNames field vary
NamingRequests ==
    {[files |-> f, sheetNames |-> sn] :
        f \in SeqsUpTo(UploadedFiles \cup {CorruptFile}, MaxFiles), sn \in SheetNamesFields}

ProcessRequests == GridRequests \cup NamingRequests

---------------------------------------------------------------------------
(* Specifications *)

InitLocals ==
    /\ workbook = <<>>
    /\ idx = <<1, 1>>
    /\ naming = NoNaming
    /\ grp = NoData
    /\ lastAdd = NoAdd
    /\ response = NoResponse
    /\ outputBuffer = "none"
    /\ dictionary = BILINGUAL_HEADERS
InitCommon == InitLocals /\ server = NoServer

\* a request to POST /api/excel/create has arrived
Init ==
    /\ endpoint = "create"
    /\ req \in CreateBodies
    /\ pc = "sheets"
    /\ InitCommon

Next == CreateSheet \/ CreateRespond \/ CreateSend

Spec == Init /\ [][Next]_vars

\* a request to POST /api/excel/process has arrived
InitProcess ==
    /\ endpoint = "process"
    /\ req \in ProcessRequests
    /\ pc = "start"
    /\ InitCommon

NextProcess ==
    \/ ProcessStart
    \/ ProcessReadFile
    \/ ProcessNameSheet
    \/ ProcessRename
    \/ ProcessAddSheet
    \/ ProcessFormatSend
    \/ ProcessSend

SpecProcess == InitProcess /\ [][NextProcess]_vars

\* a request to either endpoint
InitBoth == Init \/ InitProcess
NextBoth == Next \/ NextProcess
SpecBoth == InitBoth /\ [][NextBoth]_vars

---------------------------------------------------------------------------
(* getBilingualHeader on its own: one call with a header text *)

\* the header texts: the dictionary keys, the inherited names, and every
\* text up to MaxHeaderLen over a few letters (the empty text included)
HeaderLetters == {73, 68, 105, 100, 78, 111, 32}
HeaderTexts ==
    {BILINGUAL_HEADERS[i].k : i \in 1..Len(BILINGUAL_HEADERS)}
    \cup ObjectPrototypeNames
    \cup SeqsUpTo(HeaderLetters, MaxHeaderLen)

InitHeader ==
    /\ endpoint = "getBilingualHeader"
    /\ req \in HeaderTexts
    /\ pc = "call"
    /\ InitCommon

\* the call returns; response holds the returned value
CallGetBilingualHeader ==
    /\ endpoint = "getBilingualHeader" /\ pc = "call"
    /\ response' = getBilingualHeader(req)
    /\ pc' = "done"
    /\ UNCHANGED <<dictionary, server, outputBuffer,
                   endpoint, req, workbook, idx, naming, grp, lastAdd>>

NextHeader == CallGetBilingualHeader

SpecHeader == InitHeader /\ [][NextHeader]_vars

---------------------------------------------------------------------------
(* formatWorksheet on its own: one call with a worksheet and the grouping *)
(* metadata                                                               *)

\* a worksheet whose cells of column 8 and beyond are styled and whose
\* columns have widths already
StyledBeyond(ws) ==
    [ws EXCEPT !.widths = [col \in 1..8 |-> 20],
               !.rows = [r \in 1..Len(ws.rows) |->
                            [c \in 1..Len(ws.rows[r]) |->
                                IF c > MAX_COL
                                THEN [ws.rows[r][c] EXCEPT !.font = "bold", !.fill = "yellow",
                                                           !.alignment = "right", !.border = "thick"]
                                ELSE ws.rows[r][c]]]]

\* a text of 60 letters, and a row that has it in columns 2 and 5
S_Long == [i \in 1..60 |-> 97]
LongGridRow ==
    <<Num(5), Str(S_Long), Str(S_a), Str(S_b), Str(S_Long), Str(S_DecreeLink),
      Str(S_BareLink), Str(S_b)>>

\* the texts of cell A1: with "stt", with "id" ("Video"), the CJK label,
\* and two without any of them
FirstHeaders == {S_STT, S_Video, S_xuhao, S_Name, S_No}

\* worksheets of eight columns, with and without a sequence header, with
\* blank rows, fresh or styled
FormatGrids ==
    {<<h>> \o rows :
        h \in {<<Str(a1)>> \o Tail(WideHeader) : a1 \in FirstHeaders},
        rows \in SeqsUpTo({WideGridRowA, WideGridRowB, <<>>, LongGridRow}, MaxGridRows)}
FormatSheets ==
    {AddRows(NewWorksheet(S_S), g) : g \in FormatGrids}
    \cup {StyledBeyond(AddRows(NewWorksheet(S_S), g)) : g \in FormatGrids}

\* the grouping metadata: none, one group, two groups, a group that ends
\* after the last row; the marked rows
FormatGroups ==
    { <<>>,
      <<[id |-> Num(1), span |-> <<0, 0>>]>>,
      <<[id |-> Num(1), span |-> <<0, 1>>]>>,
      <<[id |-> Num(1), span |-> <<0, 0>>], [id |-> Num(2), span |-> <<1, 1>>]>>,
      <<[id |-> Num(1), span |-> <<0, 0>>], [id |-> Num(2), span |-> <<1, 2>>]>> }
FormatCalls ==
    {[ws |-> w, idGroups |-> g, chineseRows |-> ch] :
        w \in FormatSheets, g \in FormatGroups, ch \in SUBSET {0, 1}}

InitFormat ==
    /\ endpoint = "formatWorksheet"
    /\ req \in FormatCalls
    /\ pc = "call"
    /\ InitCommon

\* the call returns; workbook holds the worksheet as the call left it
CallFormatWorksheet ==
    /\ endpoint = "formatWorksheet" /\ pc = "call"
    /\ workbook' = <<formatWorksheet(req.ws, req.idGroups, req.chineseRows)>>
    /\ pc' = "done"
    /\ UNCHANGED <<dictionary, server, outputBuffer,
                   endpoint, req, idx, naming, grp, lastAdd, response>>

\* a second call on the worksheet the first call left, with the same
\* metadata: workbook holds the worksheet after one call and after two,
\* unless the second call throws
CallFormatWorksheetAgain ==
    /\ endpoint = "formatWorksheet" /\ pc = "done"
    /\ IF formatWorksheetThrows(workbook[1], req.idGroups)
       THEN pc' = "threw" /\ UNCHANGED workbook
       ELSE /\ pc' = "twice"
            /\ workbook' = <<workbook[1],
                              formatWorksheet(workbook[1], req.idGroups, req.chineseRows)>>
    /\ UNCHANGED <<dictionary, server, outputBuffer,
                   endpoint, req, idx, naming, grp, lastAdd, response>>

NextFormat == CallFormatWorksheet \/ CallFormatWorksheetAgain

SpecFormat == InitFormat /\ [][NextFormat]_vars

---------------------------------------------------------------------------
(* The handlers as functions of the request                              *)

\* the status a handler stops with and the workbook it holds then: at its
\* await of writeBuffer (200), at its 400, or at the statement that threw
Failed(wb) == [status |-> 500, workbook |-> wb]

\* lines 353-389 as a function of the body and of the workbook so far
RECURSIVE CreateFrom(_, _, _)
RECURSIVE CreateData(_, _, _, _)
RECURSIVE CreateBuilt(_, _, _, _)
CreateFrom(body, k, wb) ==
    IF k > Len(body.sheets)
    THEN IF Len(wb) = 0 THEN [status |-> 400, workbook |-> wb]
         ELSE [status |-> 200, workbook |-> wb]
    ELSE IF DefinitionThrows(body, k) THEN Failed(wb)
    ELSE CreateData(body, k, wb, ResolveData(body, k).data)
\* addDataToWorksheet for the data of the k-th definition
CreateData(body, k, wb, data) ==
    IF IsEmptyData(data) THEN CreateFrom(body, k + 1, wb)
    ELSE IF GroupingThrows(data.rows) \/ AddSheetThrows(body, k, wb) THEN Failed(wb)
    ELSE CreateBuilt(body, k, wb,
                     AddData(CreateSheetName(body, k, wb), groupAndSortByID(data.rows)))
CreateBuilt(body, k, wb, built) ==
    IF built.threw THEN Failed(Append(wb, built.sheet))
    ELSE CreateFrom(body, k + 1, Append(wb, built.sheet))
\* lines 326-392: the handler up to its await or its 400 or 500
CreateRun(body) == CreateFrom(Handled(body), 1, <<>>)

\* the while loop of lines 297-299
RECURSIVE RenameLoop(_, _, _, _)
RenameLoop(wb, newSheetName, finalSheetName, counter) ==
    IF HasWorksheet(wb, finalSheetName)
    THEN RenameLoop(wb, newSheetName, Suffixed(newSheetName, counter), counter + 1)
    ELSE finalSheetName

\* lines 282-306 as a function of the files and of the workbook so far
ProcessEnd(out) ==
    IF out.threw THEN Failed(out.workbook) ELSE [status |-> 200, workbook |-> out.workbook]
RECURSIVE ProcessFrom(_, _, _)
ProcessFrom(body, at, wb) ==
    IF at[1] > Len(body.files) THEN ProcessEnd(FormatAll(wb))
    ELSE IF body.files[at[1]].corrupt THEN Failed(wb)
    ELSE LET newSheetName == WantedSheetName(SheetNamesArray(body.sheetNames), body.files,
                                             at[1], body.files[at[1]].sheets[at[2]].name)
             finalSheetName == RenameLoop(wb, newSheetName, newSheetName, 1)
         IN  IF AddWorksheetThrows(wb, finalSheetName) THEN Failed(wb)
             ELSE ProcessFrom(body, NextSheet(body.files, at),
                              Append(wb, AddRows(NewWorksheet(StoredName(finalSheetName)),
                                                 body.files[at[1]].sheets[at[2]].grid)))
\* lines 268-307: the handler up to its await or its 400 or 500
ProcessRun(body) ==
    IF Len(body.files) = 0 THEN [status |-> 400, workbook |-> <<>>]
    ELSE ProcessFrom(body, <<1, 1>>, <<>>)

\* the handler after its await, writeBuffer having settled: a rejection is
\* answered 500 by the catch clause
AfterAwait(out, settled) ==
    IF out.status = 200 /\ settled = "rejected" THEN Failed(out.workbook) ELSE out
\* the answer: the status, and the workbook whose bytes are sent
AnswerOf(out) ==
    [status |-> out.status, workbook |-> IF out.status = 200 THEN out.workbook ELSE <<>>]
CreateOutcome(body, settled) == AnswerOf(AfterAwait(CreateRun(body), settled))

---------------------------------------------------------------------------
(* Requests served at the same time. Node runs one handler at a time: a   *)
(* handler runs without a break from its first statement to its await of *)
(* workbook.xlsx.writeBuffer() or to its 400 or 500 response, and other   *)
(* handlers run while it awaits. The variables endpoint, req, pc,         *)
(* workbook, idx, naming, grp, lastAdd, response and outputBuffer are the *)
(* locals of the handler that runs, and its steps are the actions of the  *)
(* two endpoints. server holds                                            *)
(*   requests:   the requests, in the order of their arrival              *)
(*   at:         where each is: "arrived", "running", "awaiting", "done"  *)
(*   running:    the request whose handler runs, 0 when none does         *)
(*   heap:       the workbooks created so far; while a handler runs, the  *)
(*               variable workbook is the workbook its reference names    *)
(*   refs:       the reference each handler holds in its constant         *)
(*               `workbook` (0: it has created none)                      *)
(*   frames:     the locals of the handlers that await (req is the        *)
(*               request itself)                                          *)
(*   responses:  the responses given, each with the workbook it carries   *)
(*   overlapped: whether the handler started while another awaited        *)

\* a variant with one workbook for all requests
SharedWorkbook(heap) == [ref |-> 1, heap |-> IF heap = <<>> THEN << <<>> >> ELSE heap]

\* new ExcelJS.Workbook() (lines 280, 326): a workbook of its own for the
\* request
NewWorkbook(heap) == [ref |-> Len(heap) + 1, heap |-> Append(heap, <<>>)]

\* two files X.xlsx, each with one sheet: the second sheet is renamed
TwoFilesOneName ==
    <<[originalname |-> S_XFile, sheets |-> <<[name |-> S_S, grid |-> SmallGrid]>>,
       corrupt |-> FALSE],
      [originalname |-> S_XFile, sheets |-> <<[name |-> S_S, grid |-> SmallGrid]>>,
       corrupt |-> FALSE]>>

\* the requests: to either endpoint, answered 200, 400 and 500, the 500
\* before and after a sheet was added to the workbook
ConcurrentRequests ==
    {[endpoint |-> "create", body |-> b] :
        b \in {[shape |-> "array", sheets |-> <<SheetDef(S_Sheet1, ArrayData(OneRow))>>],
               [shape |-> "sheets",
                sheets |-> <<SheetDef(S_X, ArrayData(OneRow)),
                             SheetDef(S_Sheet1, ArrayData(<<ToStringRow>>))>>],
               [shape |-> "sheets", sheets |-> <<>>],
               [shape |-> "sheets", sheets |-> <<SheetDef(S_X, StringData(S_oops))>>]}}
    \cup
    {[endpoint |-> "process", body |-> [files |-> f, sheetNames |-> NoSheetNames]] :
        f \in {<<>>,
               TwoFilesOneName,
               <<[originalname |-> S_XFile,
                  sheets |-> <<[name |-> S_S, grid |-> <<WideHeader, WideGridRowA>>]>>,
                  corrupt |-> FALSE],
                 CorruptFile>>}}

NoFrame == [idx |-> <<1, 1>>, naming |-> NoNaming, grp |-> NoData, lastAdd |-> NoAdd]
NoBuffer == [status |-> 0, sent |-> FALSE, buffer |-> <<>>, settled |-> "none"]

InitConcurrent ==
    /\ server \in {[requests |-> q,
                    at |-> [i \in 1..MaxRequests |-> "arrived"],
                    running |-> 0,
                    refs |-> [i \in 1..MaxRequests |-> 0],
                    heap |-> <<>>,
                    frames |-> [i \in 1..MaxRequests |-> NoFrame],
                    responses |-> [i \in 1..MaxRequests |-> NoBuffer],
                    overlapped |-> [i \in 1..MaxRequests |-> FALSE]] :
                       q \in [1..MaxRequests -> ConcurrentRequests]}
    /\ endpoint = "idle"
    /\ req = <<>>
    /\ pc = "idle"
    /\ InitLocals

\* no handler runs: the locals are those of no request
NoneRuns ==
    /\ endpoint' = "idle"
    /\ req' = <<>>
    /\ pc' = "idle"
    /\ workbook' = <<>>
    /\ idx' = <<1, 1>>
    /\ naming' = NoNaming
    /\ grp' = NoData
    /\ lastAdd' = NoAdd
    /\ response' = NoResponse
    /\ outputBuffer' = "none"

\* the workbook wb stored under the reference ref (none under 0)
Stored(heap, ref, wb) == IF ref = 0 THEN heap ELSE SetAt(heap, ref, wb)

\* Express calls the handler of request i, no handler running: the handler
\* is at its first statement. Its workbook is created at line 326 (create)
\* or, after the check of the files, at line 280 (process), before any
\* statement that uses a workbook
Dispatch(i) ==
    /\ server.running = 0 /\ server.at[i] = "arrived"
    /\ LET q == server.requests[i]
           without == q.endpoint = "process" /\ Len(q.body.files) = 0
           created == IF without THEN [ref |-> 0, heap |-> server.heap]
                      ELSE NewWorkbook(server.heap)
       IN  /\ endpoint' = q.endpoint
           /\ req' = q.body
           /\ pc' = IF q.endpoint = "create" THEN "sheets" ELSE "start"
           /\ workbook' = IF without THEN <<>> ELSE created.heap[created.ref]
           /\ server' = [server EXCEPT
                            !.running = i,
                            !.at = SetAt(@, i, "running"),
                            !.refs = SetAt(@, i, created.ref),
                            !.heap = created.heap,
                            !.overlapped =
                                SetAt(@, i, \E j \in 1..MaxRequests : server.at[j] = "awaiting")]
    /\ UNCHANGED <<dictionary, idx, naming, grp, lastAdd, response, outputBuffer>>

\* lines 308, 393: the handler of request i awaits writeBuffer and the event
\* loop turns to other work; its workbook and its locals stay as they are
Yield(i) ==
    /\ server.running = i /\ pc = "write"
    /\ server' = [server EXCEPT
                     !.running = 0,
                     !.at = SetAt(@, i, "awaiting"),
                     !.heap = Stored(@, server.refs[i], workbook),
                     !.frames = SetAt(@, i, [idx |-> idx, naming |-> naming, grp |-> grp,
                                             lastAdd |-> lastAdd])]
    /\ NoneRuns
    /\ UNCHANGED dictionary

\* the promise request i awaits has settled and no handler runs: the handler
\* goes on after its await, with the workbook its reference names as it is
\* by now
Resume(i) ==
    /\ server.running = 0 /\ server.at[i] = "awaiting"
    /\ endpoint' = server.requests[i].endpoint
    /\ req' = server.requests[i].body
    /\ idx' = server.frames[i].idx
    /\ naming' = server.frames[i].naming
    /\ grp' = server.frames[i].grp
    /\ lastAdd' = server.frames[i].lastAdd
    /\ pc' = "write"
    /\ workbook' = server.heap[server.refs[i]]
    /\ server' = [server EXCEPT !.running = i, !.at = SetAt(@, i, "running")]
    /\ UNCHANGED <<dictionary, response, outputBuffer>>

\* the handler of request i has answered and returns: the response, with
\* the workbook whose bytes it carries, is the response of request i
Finish(i) ==
    /\ server.running = i /\ pc = "done"
    /\ server' = [server EXCEPT
                     !.running = 0,
                     !.at = SetAt(@, i, "done"),
                     !.heap = Stored(@, server.refs[i], workbook),
                     !.responses =
                         SetAt(@, i, [status |-> response.status, sent |-> response.sent,
                                      buffer |-> IF response.sent THEN workbook ELSE <<>>,
                                      settled |-> outputBuffer])]
    /\ NoneRuns
    /\ UNCHANGED dictionary

Serve == \E i \in 1..MaxRequests : Dispatch(i) \/ Yield(i) \/ Resume(i) \/ Finish(i)

NextConcurrent ==
    \/ Serve
    \/ CreateSheet
    \/ CreateRespond
    \/ CreateSend
    \/ ProcessStart
    \/ ProcessReadFile
    \/ ProcessNameSheet
    \/ ProcessRename
    \/ ProcessAddSheet
    \/ ProcessFormatSend
    \/ ProcessSend

SpecConcurrent == InitConcurrent /\ [][NextConcurrent]_vars


---------------------------------------------------------------------------
(* Properties of POST /api/excel/create (specification Spec) *)

\* a sheet definition went through groupAndSortByID
Grouped == grp.data # <<>>
\* ... and its worksheet was added and formatted: the last one of the workbook
SheetBuilt == Grouped /\ lastAdd.outcome = "added"
LastSheet == workbook[Len(workbook)]
\* A1 carries the bilingual sequence label: column A is the sequence column
SequenceColumn == SheetBuilt /\ LastSheet.rows[1][1].value = Str(S_STT_LABEL)

Count(seq, x) == Cardinality({i \in 1..Len(seq) : seq[i] = x})
IDsOf(data) == {RowID(data[i]) : i \in 1..Len(data)}
FirstIndex(data, v) ==
    CHOOSE i \in 1..Len(data) : RowID(data[i]) = v /\ \A j \in 1..(i - 1) : RowID(data[j]) # v
\* v is the k-th distinct ID value of data in first-appearance order
Rank(data, v) == Cardinality({u \in IDsOf(data) : FirstIndex(data, u) <= FirstIndex(data, v)})
\* the rows of seq with ID v and the given classification, in order
Pick(seq, v, chinese) ==
    LET Wanted(r) == RowID(r) = v /\ IsChineseRow(r) = chinese
    IN  SelectSeq(seq, Wanted)
WithID(seq, v) ==
    LET Wanted(r) == RowID(r) = v
    IN  SelectSeq(seq, Wanted)

\* example rows
Row(id, name) == Obj(<<Prop(S_ID, Num(id)), Prop(S_Name, Str(name))>>)
RowNoID(name) == Obj(<<Prop(S_Name, Str(name))>>)
RowSTT == Obj(<<Prop(S_STT, Num(7)), Prop(S_Name, Str(S_Jia))>>)
\* the row has a field ID of its own
HasID(row) == row.t = "object" /\ \E i \in 1..Len(row.c) : row.c[i].k = S_ID

\* C1: sortedData is a permutation of the input: same length, every input
\* row (with all its fields) as many times as in the input
C1_SortedIsPermutation ==
    Grouped =>
        /\ Len(grp.sortedData) = Len(grp.data)
        /\ \A i \in 1..Len(grp.data) :
              Count(grp.sortedData, grp.data[i]) = Count(grp.data, grp.data[i])

\* interleaved IDs 1,2,1: the rows were reordered
C1_Witness ==
    /\ Grouped
    /\ grp.data = <<Row(1, S_A), Row(2, S_B), Row(1, S_B)>>
    /\ grp.sortedData = <<Row(1, S_A), Row(1, S_B), Row(2, S_B)>>

\* C2: with column A the sequence column, the groups carry the numbers 1..G,
\* G the number of distinct ID values, and every output row of the k-th
\* distinct ID value (first-appearance order) shows k in column A
C2_GroupNumbers ==
    SequenceColumn =>
        /\ Len(grp.idGroups) = Cardinality(IDsOf(grp.data))
        /\ \A i \in 1..Len(grp.sortedData) :
              LastSheet.rows[i + 1][1].value = Num(Rank(grp.data, RowID(grp.sortedData[i])))

\* the example: IDs 1,1,2 give 1 on output rows 1-2 and 2 on row 3
C2_Witness ==
    /\ SequenceColumn
    /\ grp.data = <<Row(1, S_A), Row(1, S_Jia), Row(2, S_B)>>
    /\ LastSheet.rows[2][1].value = Num(1)
    /\ LastSheet.rows[3][1].value = Num(1)
    /\ LastSheet.rows[4][1].value = Num(2)
    /\ LastSheet.merges = {<<2, 3>>}

\* C3: among the rows of one ID value, no secondary-language row comes before
\* a primary-language row, and the rows of each classification are in input order
C3_PrimaryFirstStable ==
    Grouped =>
        \A v \in IDsOf(grp.data) :
            /\ WithID(grp.sortedData, v) =
                  Pick(grp.data, v, FALSE) \o Pick(grp.data, v, TRUE)
            /\ Pick(grp.sortedData, v, FALSE) = Pick(grp.data, v, FALSE)
            /\ Pick(grp.sortedData, v, TRUE) = Pick(grp.data, v, TRUE)

\* a secondary-language row first in the input, two primary rows after it
C3_Witness ==
    /\ Grouped
    /\ grp.data = <<Row(1, S_Jia), Row(1, S_B), Row(1, S_A)>>
    /\ grp.sortedData = <<Row(1, S_B), Row(1, S_A), Row(1, S_Jia)>>

\* C4: the spans, in first-appearance order of the ID values, partition
\* 0..N-1, and row i of sortedData has ID v exactly when i is in v's span
C4_SpansPartition ==
    Grouped =>
        LET G == grp.idGroups
            N == Len(grp.sortedData)
        IN  /\ Len(G) = Cardinality(IDsOf(grp.data))
            /\ \A k \in 1..Len(G) : Rank(grp.data, G[k].id) = k
            /\ G[1].span[1] = 0
            /\ G[Len(G)].span[2] = N - 1
            /\ \A k \in 1..(Len(G) - 1) : G[k + 1].span[1] = G[k].span[2] + 1
            /\ \A k \in 1..Len(G) : G[k].span[1] <= G[k].span[2]
            /\ \A k \in 1..Len(G) : \A i \in 0..(N - 1) :
                  (RowID(grp.sortedData[i + 1]) = G[k].id)
                      <=> (G[k].span[1] <= i /\ i <= G[k].span[2])

\* interleaved IDs 1,2,1: spans [0,1] and [2,2]
C4_Witness ==
    /\ Grouped
    /\ grp.data = <<Row(1, S_A), Row(2, S_B), Row(1, S_B)>>
    /\ grp.idGroups = <<[id |-> Num(1), span |-> <<0, 1>>], [id |-> Num(2), span |-> <<2, 2>>]>>

\* C5: the rows without an ID field form one group, at the place of the
\* first such row among the distinct ID values, apart from every present ID
\* value (null included), and show one sequence number
C5_AbsentIDGroup ==
    (Grouped /\ \E i \in 1..Len(grp.data) : ~HasID(grp.data[i])) =>
        LET G == grp.idGroups
            absent == {k \in 1..Len(G) : G[k].id = Undefined}
        IN  /\ Cardinality(absent) = 1
            /\ \A k \in absent :
                  /\ k = Rank(grp.data, Undefined)
                  /\ G[k].span[2] - G[k].span[1] + 1 =
                        Cardinality({i \in 1..Len(grp.data) : ~HasID(grp.data[i])})
                  /\ \A i \in 1..Len(grp.sortedData) :
                        (~HasID(grp.sortedData[i]))
                            <=> (G[k].span[1] <= i - 1 /\ i - 1 <= G[k].span[2])
                  /\ SequenceColumn =>
                        \A i \in (G[k].span[1] + 1)..(G[k].span[2] + 1) :
                            LastSheet.rows[i + 1][1].value = Num(k)

\* two rows without ID (first key STT), apart in the input, around a row
\* with ID 1: they form group 1 on sheet rows 2-3, ID 1 is group 2
C5_Witness ==
    /\ SequenceColumn
    /\ grp.data = <<RowSTT, Row(1, S_A), RowSTT>>
    /\ grp.idGroups[1] = [id |-> Undefined, span |-> <<0, 1>>]
    /\ LastSheet.rows[2][1].value = Num(1)
    /\ LastSheet.rows[3][1].value = Num(1)
    /\ LastSheet.rows[4][1].value = Num(2)

\* C9 (as stated): two sheet definitions of a { sheets: [...] } payload with
\* the same name, both with rows (row objects), give a spreadsheet with
\* both sheets, the later one under the name suffixed _1; the request does
\* not fail (writeBuffer not rejecting)
C9_DuplicateNamesSuffixed ==
    ( /\ pc = "done"
      /\ outputBuffer # "rejected"
      /\ req.shape = "sheets"
      /\ Len(req.sheets) = 2
      /\ req.sheets[1].name # <<>>
      /\ req.sheets[1].name = req.sheets[2].name
      /\ \A k \in 1..2 :
            /\ ~IsEmptyData(req.sheets[k].data)
            /\ \A i \in 1..Len(req.sheets[k].data.rows) :
                  req.sheets[k].data.rows[i].t = "object" ) =>
        /\ response = [status |-> 200, sent |-> TRUE]
        /\ SheetNamesOf(workbook) =
              <<req.sheets[1].name, Suffixed(req.sheets[1].name, 1)>>

---------------------------------------------------------------------------
(* Properties of POST /api/excel/process (specification SpecProcess) *)

\* the spreadsheet was formatted and sent
Processed == endpoint = "process" /\ pc = "done" /\ response.sent

\* the uploaded sheets in the order they are added: file by file
RECURSIVE SourcesFrom(_, _)
SourcesFrom(files, i) ==
    IF i > Len(files) THEN <<>> ELSE files[i].sheets \o SourcesFrom(files, i + 1)
Sources == SourcesFrom(req.files, 1)

\* the value at (r, c) of an uploaded grid, and of a worksheet
GridValue(g, r, c) ==
    IF r <= Len(g) /\ c <= Len(g[r]) /\ g[r][c].t # "undefined" THEN g[r][c] ELSE Null
SheetValue(ws, r, c) ==
    IF r <= Len(ws.rows) /\ c <= Len(ws.rows[r]) THEN ws.rows[r][c].value ELSE Null
BlankGridRow(row) == \A c \in 1..Len(row) : row[c].t \in {"undefined", "null"}
\* the first cell of an uploaded row is empty
FirstCellEmpty(row) == Len(row) >= 1 /\ row[1].t = "undefined"
\* what the output sheet is given at (r, c): the value of the uploaded cell
\* (r, c), or of its right neighbour when the first cell of the row is empty
WrittenValue(g, r, c) ==
    IF r <= Len(g) /\ FirstCellEmpty(g[r]) THEN GridValue(g, r, c + 1) ELSE GridValue(g, r, c)
\* the number of cells an uploaded row is written to, and the most over a grid
WrittenLength(row) == IF FirstCellEmpty(row) THEN Len(row) - 1 ELSE Len(row)
WrittenColumns(g) ==
    LET lengths == {WrittenLength(g[r]) : r \in 1..Len(g)}
    IN  IF lengths = {} THEN 0 ELSE CHOOSE m \in lengths : \A n \in lengths : n <= m
\* the widest row of an uploaded grid
GridColumns(g) ==
    LET lengths == {Len(g[r]) : r \in 1..Len(g)}
    IN  IF lengths = {} THEN 0 ELSE CHOOSE m \in lengths : \A n \in lengths : n <= m
\* the number of non-blank data rows up to row r
DataRank(g, r) == Cardinality({q \in 2..r : ~BlankGridRow(g[q])})
\* the lower-cased header of column c
HeaderText(g, c) ==
    IF c <= Len(g[1]) /\ g[1][c].t = "string" THEN ToLowerCase(g[1][c].s) ELSE <<>>
\* the text written to cell A1 passes the test of formatWorksheet
Detected(g) ==
    /\ g # <<>>
    /\ WrittenValue(g, 1, 1).t = "string"
    /\ IsSequenceHeader(ToLowerCase(WrittenValue(g, 1, 1).s))

\* the places where "http" starts in a text
HttpStarts(s) == {k \in 1..(Len(s) - 3) : SubSeq(s, k, k + 3) = S_http}
FirstHttp(s) == CHOOSE k \in HttpStarts(s) : \A j \in HttpStarts(s) : k <= j
\* a text of column F or G with a label before its first "http"
HasLabelledLink(v, c) ==
    /\ c \in {6, 7}
    /\ v.t = "string"
    /\ HttpStarts(v.s) # {}
    /\ Trim(SubSeq(v.s, 1, FirstHttp(v.s) - 1)) # <<>>
\* what a cell outside column A shows after formatting
ShownValue(v, c) ==
    IF HasLabelledLink(v, c)
    THEN Link(Trim(SubSeq(v.s, 1, FirstHttp(v.s) - 1)),
              Trim(SubSeq(v.s, FirstHttp(v.s), Len(v.s))))
    ELSE v

\* C6 (amended): in a sheet whose cell A1, as written, is detected, the
\* non-blank data rows read 1, 2, ... in column A in row order and blank
\* rows stay blank; a row whose first cell is empty is written one column
\* to the left, any other row in its own columns; outside column A every
\* cell, up to the last column, keeps the value written to it, except that
\* a text of column F or G with a label before "http" becomes a hyperlink
\* cell
C6_FlatNumbering ==
    Processed =>
        \A s \in 1..Len(Sources) :
            LET g == Sources[s].grid
                ws == workbook[s]
                last == Max(MAX_COL, GridColumns(g))
            IN  Detected(g) =>
                    /\ Len(ws.rows) = Len(g)
                    /\ \A c \in 2..last : SheetValue(ws, 1, c) = WrittenValue(g, 1, c)
                    /\ \A r \in 2..Len(g) :
                          /\ IF BlankGridRow(g[r])
                             THEN SheetValue(ws, r, 1) = Null
                             ELSE SheetValue(ws, r, 1) = Num(DataRank(g, r))
                          /\ \A c \in 2..last :
                                SheetValue(ws, r, c) = ShownValue(WrittenValue(g, r, c), c)

\* header STT ... Link, a row with an empty first cell and "a" in column
\* B, then a row with "D http://e" in column F: the first row reads 1 in
\* column A and nothing in column B ("a" was written to column A), the
\* second 2 in column A and a hyperlink in column F
C6_Witness ==
    /\ Processed
    /\ Len(Sources) = 1
    /\ Sources[1].grid =
          << <<Str(S_STT), Str(S_Name), Str(S_a), Str(S_b), Str(S_a), Str(S_Link)>>,
             <<Undefined, Str(S_a)>>,
             <<Num(5), Str(S_a), Undefined, Undefined, Undefined, Str(S_DecreeLink)>> >>
    /\ workbook[1].rows[2][1].value = Num(1)
    /\ \A c \in 2..MAX_COL : workbook[1].rows[2][c].value = Null
    /\ workbook[1].rows[3][1].value = Num(2)
    /\ workbook[1].rows[3][2].value = Str(S_a)
    /\ workbook[1].rows[3][6].value = Link(<<68>>, S_BareLink)

\* C6 (as stated): the non-blank data rows read 1, 2, ... in column A and
\* every cell of every other column has the value it had before formatting
C6_OtherColumnsUnchanged ==
    Processed =>
        \A s \in 1..Len(Sources) :
            LET g == Sources[s].grid
                ws == workbook[s]
            IN  Detected(g) =>
                    \A r \in 2..Len(g) :
                        /\ ~BlankGridRow(g[r]) => SheetValue(ws, r, 1) = Num(DataRank(g, r))
                        /\ \A c \in 2..Max(MAX_COL, GridColumns(g)) :
                              SheetValue(ws, r, c) = GridValue(g, r, c)

\* the names the documentation gives for the identifier column
IdentifierNames == {S_id, S_stt, S_no, S_sothutu}

\* C7 (as stated): a column is numbered 1, 2, ... over the non-blank data
\* rows exactly when its whole header, ignoring case, is one of id, stt,
\* no, s\u1ed1 th\u1ee9 t\u1ef1, wherever the column stands; the cells of
\* the other columns keep what they held (a labelled link of column F or G
\* shown as a hyperlink); said of the sheets whose header has a text in
\* column A and of the rows with a value in column A, which are written in
\* their own columns
C7_IdentifierByExactName ==
    Processed =>
        \A s \in 1..Len(Sources) :
            LET g == Sources[s].grid
                ws == workbook[s]
            IN  (g # <<>> /\ g[1] # <<>> /\ ~FirstCellEmpty(g[1])) =>
                    \A r \in 2..Len(g) : \A c \in 1..Len(g[1]) :
                        (~BlankGridRow(g[r]) /\ ~FirstCellEmpty(g[r])) =>
                            SheetValue(ws, r, c) =
                                IF HeaderText(g, c) \in IdentifierNames
                                THEN Num(DataRank(g, r))
                                ELSE ShownValue(GridValue(g, r, c), c)

\* the name a sheet wanting the name x gets beside the names in taken:
\* x when free, else x_k for the least k >= 1 with x_k free
FreeName(x, taken) ==
    LET Taken(n) == \E i \in 1..Len(taken) : taken[i] = n
    IN  IF ~Taken(x) THEN x
        ELSE Suffixed(x, CHOOSE k \in 1..(Len(taken) + 1) :
                            /\ ~Taken(Suffixed(x, k))
                            /\ \A j \in 1..(k - 1) : Taken(Suffixed(x, j)))

\* C8 (as stated): no two sheets of the output workbook have the same name,
\* every sheet is added under its wanted name when that is free and else
\* under the first free suffixed name, and the renaming loop makes no more
\* turns than there are sheets
C8_SheetNamesDeduplicated ==
    endpoint = "process" =>
        /\ \A i, j \in 1..Len(workbook) : i # j => workbook[i].name # workbook[j].name
        /\ lastAdd.outcome # "none" =>
              /\ lastAdd.outcome = "added"
              /\ lastAdd.name = FreeName(lastAdd.wanted, lastAdd.before)
        /\ naming.counter <= Len(workbook) + 1

\* the file name without its last extension
StrippedName(name) ==
    LET cuts == {k \in 1..(Len(name) - 1) :
                    name[k] = 46 /\ \A j \in (k + 1)..Len(name) : name[j] \notin {46, 47}}
    IN  IF cuts = {} THEN name ELSE SubSeq(name, 1, (CHOOSE k \in cuts : TRUE) - 1)
\* the names the caller supplied: a list, or one name standing for a list of one
SuppliedNames ==
    IF req.sheetNames.kind = "array" THEN req.sheetNames.names
    ELSE IF req.sheetNames.kind = "string" THEN <<req.sheetNames.names[1]>>
    ELSE <<>>
\* the caller supplied a non-empty name at the position of file f
NamedAt(f) == f <= Len(SuppliedNames) /\ SuppliedNames[f] # <<>>

\* C10 (amended): the wanted name of a sheet is the caller's name at the
\* position of its file when there is a non-empty one; else, when more than
\* one file is uploaded, the file name without its extension (whether or
\* not other positions are named); else the in-file sheet name
C10_WantedNameOrder ==
    (endpoint = "process" /\ pc = "rename") =>
        naming.newSheetName =
            IF NamedAt(idx[1]) THEN SuppliedNames[idx[1]]
            ELSE IF Len(req.files) > 1 THEN StrippedName(req.files[idx[1]].originalname)
            ELSE req.files[idx[1]].sheets[idx[2]].name

\* names X_1 and X for three files: the third file, x.xls, has no name at
\* its position and its sheet X_1 is wanted under the file name x
C10_Witness ==
    /\ endpoint = "process" /\ pc = "rename"
    /\ req.sheetNames = [kind |-> "array", names |-> <<S_X_1, S_X>>]
    /\ Len(req.files) = 3
    /\ idx = <<3, 1>>
    /\ req.files[3].originalname = S_xFile
    /\ req.files[3].sheets[1].name = S_X_1
    /\ naming.newSheetName = S_x

\* C10 (as stated): the file name is used only when more than one file is
\* uploaded and no sheet is named
C10_FileNameOnlyWhenUnnamed ==
    (endpoint = "process" /\ pc = "rename") =>
        naming.newSheetName =
            IF NamedAt(idx[1]) THEN SuppliedNames[idx[1]]
            ELSE IF Len(req.files) > 1 /\ \A f \in 1..Len(SuppliedNames) : ~NamedAt(f)
            THEN StrippedName(req.files[idx[1]].originalname)
            ELSE req.files[idx[1]].sheets[idx[2]].name

---------------------------------------------------------------------------
(* Properties of getBilingualHeader (specification SpecHeader) *)

\* C17 (as stated): the call returns the bilingual label for the seven
\* dictionary names and the header text itself for every other text
C17_LabelOrUnchanged ==
    (endpoint = "getBilingualHeader" /\ pc = "done") =>
        response = IF \E i \in 1..Len(BILINGUAL_HEADERS) : BILINGUAL_HEADERS[i].k = req
                   THEN Str(BILINGUAL_HEADERS[
                            CHOOSE i \in 1..Len(BILINGUAL_HEADERS) : BILINGUAL_HEADERS[i].k = req].v)
                   ELSE Str(req)

---------------------------------------------------------------------------
(* Properties of the payload formats of POST /api/excel/create (Spec) *)

\* the request was answered
Answered == endpoint = "create" /\ pc = "done"
\* what it was answered with
ActualOutcome ==
    [status |-> response.status, workbook |-> IF response.sent THEN workbook ELSE <<>>]

\* a list of (sheet name, rows), and the same list with every rows value
\* JSON-encoded
DirectLists(defs) ==
    \A i \in 1..Len(defs) : defs[i].fault = "none" /\ defs[i].data.kind = "array"
Encoded(defs) ==
    [i \in 1..Len(defs) |->
        SheetDef(defs[i].name, StringData(JSONStringifyRows(defs[i].data.rows)))]
DistinctNames(defs) == \A i, j \in 1..Len(defs) : i # j => defs[i].name # defs[j].name
AsSheets(defs) == [shape |-> "sheets", sheets |-> defs]
AsKeyed(defs) == [shape |-> "keyed", sheets |-> defs]

\* C11 (amended): a list of (name, rows) gives the same answer and workbook
\* as a `sheets` list with direct lists and with JSON-encoded strings, for
\* every name; as a keyed object with JSON-encoded strings when the names
\* are distinct and not empty; as a keyed object with direct lists when,
\* besides, no name is "sheets"; and a bare list of rows gives the same as
\* the keyed object {"Sheet1": rows}
C11_FormatsAgree ==
    /\ (Answered /\ req.shape = "sheets" /\ DirectLists(req.sheets)) =>
          /\ ActualOutcome = CreateOutcome(AsSheets(Encoded(req.sheets)), outputBuffer)
          /\ (DistinctNames(req.sheets) /\ \A i \in 1..Len(req.sheets) : req.sheets[i].name # <<>>) =>
                ActualOutcome = CreateOutcome(AsKeyed(Encoded(req.sheets)), outputBuffer)
          /\ (DistinctNames(req.sheets)
                /\ \A i \in 1..Len(req.sheets) : req.sheets[i].name \notin {<<>>, S_sheets}) =>
                ActualOutcome = CreateOutcome(AsKeyed(req.sheets), outputBuffer)
    /\ (Answered /\ req.shape = "array") =>
          ActualOutcome = CreateOutcome(AsKeyed(<<SheetDef(S_Sheet1, req.sheets[1].data)>>), outputBuffer)

\* the list <<("X", one row), ("sheets", one row)>> sent as a `sheets`
\* list: two sheets, as with the strings in either format
C11_Witness ==
    /\ Answered
    /\ req = AsSheets(<<SheetDef(S_X, ArrayData(OneRow)), SheetDef(S_sheets, ArrayData(OneRow))>>)
    /\ response.sent
    /\ SheetNamesOf(workbook) = <<S_X, S_sheets>>
    /\ CreateOutcome(AsKeyed(Encoded(req.sheets)), outputBuffer) = ActualOutcome
    /\ CreateOutcome(AsSheets(Encoded(req.sheets)), outputBuffer) = ActualOutcome

\* C11 (as stated): the four ways of sending a list of (name, rows) with
\* distinct names give the same answer and workbook, for every sheet name
C11_FormatsAgreeForEveryName ==
    (Answered /\ req.shape = "sheets" /\ DirectLists(req.sheets) /\ DistinctNames(req.sheets)) =>
        /\ ActualOutcome = CreateOutcome(AsSheets(Encoded(req.sheets)), outputBuffer)
        /\ ActualOutcome = CreateOutcome(AsKeyed(Encoded(req.sheets)), outputBuffer)
        /\ ActualOutcome = CreateOutcome(AsKeyed(req.sheets), outputBuffer)

---------------------------------------------------------------------------
(* Properties of the responses *)

\* the sheet definitions the handler walks, the rows each resolves to, and
\* the definitions that raise an error before any row is looked at: a
\* string that is no JSON text, or null in the place of a definition
Definitions == Handled(req).sheets
RowListOf(d) ==
    IF d.data.kind = "array" THEN d.data.rows
    ELSE IF d.data.kind = "string" /\ JSONParse(d.data.text).ok
            /\ JSONParse(d.data.text).v.t = "array"
    THEN JSONParse(d.data.text).v.c
    ELSE <<>>
RowsOf(d) == Len(RowListOf(d))
\* every row of the definition is a row object, and its name is a text
RowObjects(d) ==
    /\ d.fault = "none"
    /\ \A i \in 1..Len(RowListOf(d)) : RowListOf(d)[i].t = "object"
Unparsable(d) == d.data.kind = "string" /\ ~JSONParse(d.data.text).ok
NoDefinition(d) == d.fault = "element"

\* C12: when every sheet definition resolves to zero rows (no definition
\* at all included) the answer is 400 and no spreadsheet; when some
\* definition has a row and no error occurs the answer is a spreadsheet
C12_EmptyPayloadIs400 ==
    Answered =>
        /\ (\A k \in 1..Len(Definitions) :
                /\ ~Unparsable(Definitions[k]) /\ ~NoDefinition(Definitions[k])
                /\ RowsOf(Definitions[k]) = 0) =>
              (response = [status |-> 400, sent |-> FALSE] /\ workbook = <<>>)
        /\ ((\E k \in 1..Len(Definitions) : RowsOf(Definitions[k]) >= 1)
              /\ response.status # 500) =>
              (response = [status |-> 200, sent |-> TRUE] /\ Len(workbook) >= 1)

\* two definitions, one with data that is no list, one with an empty list
C12_Witness ==
    /\ Answered
    /\ req = AsSheets(<<SheetDef(S_X, OtherData), SheetDef(S_x, ArrayData(<<>>))>>)
    /\ response = [status |-> 400, sent |-> FALSE]
    /\ workbook = <<>>

\* C13 (as stated): files whose sheets hold no row at all are answered
\* with a client error and no spreadsheet (writeBuffer not rejecting)
C13_NoRowsIsClientError ==
    ( /\ endpoint = "process" /\ pc = "done"
      /\ outputBuffer # "rejected"
      /\ Len(req.files) >= 1
      /\ \A f \in 1..Len(req.files) :
            /\ ~req.files[f].corrupt
            /\ \A s \in 1..Len(req.files[f].sheets) : req.files[f].sheets[s].grid = <<>> ) =>
        (response.status = 400 /\ ~response.sent)

\* C14: a request without files is answered 400 at once: no sheet is named
\* or added, no workbook is filled, nothing is sent
C14_NoFileIs400 ==
    (endpoint = "process" /\ Len(req.files) = 0) =>
        /\ pc \in {"start", "done"}
        /\ workbook = <<>> /\ idx = <<1, 1>> /\ naming = NoNaming /\ lastAdd = NoAdd
        /\ pc = "done" => response = [status |-> 400, sent |-> FALSE]

C14_Witness ==
    /\ endpoint = "process" /\ Len(req.files) = 0 /\ pc = "done"
    /\ response = [status |-> 400, sent |-> FALSE]
    /\ workbook = <<>>

\* the rows of the definition the handler stopped at hold null, so that
\* reading the ID of that row throws
NullRowAt(k) ==
    \E i \in 1..Len(RowListOf(Definitions[k])) : RowListOf(Definitions[k])[i].t = "null"
\* an exception was raised: addWorksheet threw, formatWorksheet threw, a
\* data string was no JSON text, null stood for a definition or for a row,
\* a file could not be read, or the awaited writeBuffer rejected
Threw ==
    \/ lastAdd.outcome \in {"threw", "unformatted"}
    \/ outputBuffer = "rejected"
    \/ /\ endpoint = "create" /\ pc = "done" /\ idx[1] <= Len(Definitions)
       /\ \/ Unparsable(Definitions[idx[1]])
          \/ NoDefinition(Definitions[idx[1]])
          \/ NullRowAt(idx[1])
    \/ /\ endpoint = "process" /\ pc = "done" /\ idx[1] <= Len(req.files)
       /\ req.files[idx[1]].corrupt

\* the work a handler has left, as a triple that every step makes smaller
\* in lexicographic order: the sheets (definitions) still to come, the
\* stage within the current one, the turns the renaming loop may still take
SheetsInFiles == Len(SourcesFrom(req.files, 1))
WorkLeft ==
    IF pc = "done" THEN <<0, 0, 0>>
    ELSE IF pc = "write" THEN <<0, 0, 1>>
    ELSE IF endpoint = "create" THEN <<Len(Definitions) + 1 - idx[1], 1, 0>>
    ELSE << SheetsInFiles - Len(workbook),
            CASE pc = "start" -> 5 [] pc = "file" -> 4 [] pc = "sheet" -> 3
              [] pc = "rename" -> 2 [] OTHER -> 1,
            IF pc = "rename" THEN Len(workbook) + 2 - naming.counter ELSE 0 >>
LexLess(x, y) ==
    \/ x[1] < y[1]
    \/ x[1] = y[1] /\ x[2] < y[2]
    \/ x[1] = y[1] /\ x[2] = y[2] /\ x[3] < y[3]

\* an unanswered request is at a place where the handler has a next step
StepApplies ==
    IF endpoint = "create" THEN pc \in {"sheets", "write"}
    ELSE /\ pc \in {"start", "file", "sheet", "rename", "format", "write"}
         /\ pc \in {"file", "sheet", "rename"} => idx[1] \in 1..Len(req.files)
         /\ pc \in {"sheet", "rename"} => idx[2] \in 1..Len(req.files[idx[1]].sheets)

\* the state of the response at any moment of a request
ResponseOK ==
    /\ pc # "done" => (response = NoResponse /\ StepApplies)
    /\ pc = "done" => response.status \in {200, 400, 500}
    /\ response.sent <=> response.status = 200
    /\ response.sent <=> outputBuffer = "bytes"
    /\ Threw <=> response.status = 500
    /\ \A i \in 1..3 : WorkLeft[i] >= 0

\* C15: in both endpoints an exception, a rejection of the awaited
\* writeBuffer included, ends the request with a 500 and no spreadsheet, and
\* nothing else does; every request is answered with 200, 400 or 500 after a
\* bounded number of steps (each step leaves less work), once, and the
\* answer is not changed afterwards
C15_OneResponse ==
    /\ []ResponseOK
    /\ [][(response # NoResponse => response' = response) /\ LexLess(WorkLeft', WorkLeft)]_vars

\* the workbook has its sheet and writeBuffer rejects: 500, and the workbook
\* is not sent
C15_Witness ==
    /\ endpoint = "process" /\ pc = "done"
    /\ Len(req.files) >= 1 /\ \A f \in 1..Len(req.files) : ~req.files[f].corrupt
    /\ Len(workbook) >= 1
    /\ lastAdd.outcome = "added"
    /\ outputBuffer = "rejected"
    /\ response = [status |-> 500, sent |-> FALSE]

\* C16 (as stated): a sheet definition that is invalid or without rows does
\* not fail the request: when other definitions have rows (row objects),
\* under names that do not clash, the answer is a spreadsheet (writeBuffer
\* not rejecting)
C16_InvalidSheetSkipped ==
    ( /\ Answered
      /\ outputBuffer # "rejected"
      /\ req.shape = "sheets"
      /\ \A k \in 1..Len(req.sheets) : RowObjects(req.sheets[k])
      /\ \E k \in 1..Len(req.sheets) : RowsOf(req.sheets[k]) >= 1
      /\ \A j, k \in 1..Len(req.sheets) :
            (j # k /\ RowsOf(req.sheets[j]) >= 1 /\ RowsOf(req.sheets[k]) >= 1) =>
                ToLowerCase(req.sheets[j].name) # ToLowerCase(req.sheets[k].name) ) =>
        (response = [status |-> 200, sent |-> TRUE] /\ Len(workbook) >= 1)

---------------------------------------------------------------------------
(* Properties of the columns beyond the seventh, and of links *)

\* formatWorksheet has returned
Formatted == endpoint = "formatWorksheet" /\ pc = "done"
\* the number of cells of row r of a worksheet, 0 when the row is missing
RowLength(rows, r) == IF r <= Len(rows) THEN Len(rows[r]) ELSE 0

\* C19: formatWorksheet leaves the columns beyond the seventh as they
\* were: every cell there keeps value, font, fill, border and alignment,
\* no cell is created there, and the widths of those columns are the same
C19_BeyondSeventhUntouched ==
    Formatted =>
        LET before == req.ws
            ws == workbook[1]
        IN  /\ \A r \in 1..Len(before.rows) :
                  \A c \in (MAX_COL + 1)..Len(before.rows[r]) :
                      ws.rows[r][c] = before.rows[r][c]
            /\ \A r \in 1..Len(ws.rows) :
                  Len(ws.rows[r]) <= Max(MAX_COL, RowLength(before.rows, r))
            /\ Len(ws.widths) = Max(MAX_COL, Len(before.widths))
            /\ \A c \in (MAX_COL + 1)..Len(before.widths) : ws.widths[c] = before.widths[c]

\* a styled sheet with a labelled link in columns 6 and 8 of its first data
\* row, two groups, a marked row: column 6 is a hyperlink, column 8 is as
\* it was
C19_Witness ==
    /\ Formatted
    /\ Len(req.idGroups) = 2 /\ req.chineseRows = {0}
    /\ Len(req.ws.rows) = 3 /\ Len(req.ws.widths) = 8
    /\ Len(req.ws.rows[2]) = 8
    /\ req.ws.rows[2][8] = [value |-> Str(S_DecreeLink), font |-> "bold", fill |-> "yellow",
                            alignment |-> "right", border |-> "thick"]
    /\ workbook[1].rows[2][8] = req.ws.rows[2][8]
    /\ workbook[1].rows[2][6].value = Link(<<68>>, S_BareLink)
    /\ workbook[1].widths[8] = 20

\* the text of a cell value that may hold a link
TextOf(v) == IF v.t = "string" THEN v.s ELSE <<>>
\* the part before the first "http", and the part from it on, trimmed
BeforeHttp(s) == Trim(SubSeq(s, 1, FirstHttp(s) - 1))
FromHttp(s) == Trim(SubSeq(s, FirstHttp(s), Len(s)))

\* C20: in a data row, a cell of column 6 or 7 whose text contains "http"
\* becomes a hyperlink cell (text: the trimmed part before the first
\* "http", target: the trimmed part from it on, link font) exactly when
\* both parts are non-empty and keeps its value otherwise; no cell of
\* columns 1-5 becomes a hyperlink
C20_LinkSplit ==
    Formatted =>
        \A r \in 2..Len(req.ws.rows) :
            \A c \in 1..Min(MAX_COL, Len(req.ws.rows[r])) :
                LET v == req.ws.rows[r][c].value
                    s == TextOf(v)
                    out == workbook[1].rows[r][c]
                IN  /\ (c \in {6, 7} /\ HttpStarts(s) # {}) =>
                          IF BeforeHttp(s) # <<>> /\ FromHttp(s) # <<>>
                          THEN /\ out.value = [t |-> "hyperlink", n |-> 0,
                                               s |-> BeforeHttp(s), h |-> FromHttp(s),
                                               c |-> <<>>]
                               /\ out.font = "link"
                          ELSE out.value = v /\ out.font # "link"
                    /\ (c \in {6, 7} /\ HttpStarts(s) = {}) => out.value = v
                    /\ c <= 5 => out.value.t # "hyperlink"

\* "D http://e" in columns 5 and 6 and "http://e" in column 7 of the first
\* data row, " http://e" in column 6 of the second: only column 6 of the
\* first row becomes a hyperlink (and column 7 of the second)
C20_Witness ==
    /\ Formatted
    /\ Len(req.ws.rows) = 3
    /\ Len(req.ws.rows[2]) = 8
    /\ [c \in 1..8 |-> req.ws.rows[2][c].value] = WideGridRowA
    /\ Len(req.ws.rows[3]) = 8 /\ req.ws.rows[3][6].value = Str(S_SpaceLink)
    /\ workbook[1].rows[2][5].value = Str(S_DecreeLink)
    /\ workbook[1].rows[2][6].value = Link(<<68>>, S_BareLink)
    /\ workbook[1].rows[2][6].font = "link"
    /\ workbook[1].rows[2][7].value = Str(S_BareLink)
    /\ workbook[1].rows[3][6].value = Str(S_SpaceLink)
    /\ workbook[1].rows[3][7].value = Link(<<68>>, S_BareLink)

\* the number of columns of a list of rows: the length of its longest row
RECURSIVE ColumnsOf(_)
ColumnsOf(rows) == IF rows = <<>> THEN 0 ELSE Max(Len(Head(rows)), ColumnsOf(Tail(rows)))
\* the keys of each row of a list of row objects
KeysOfRows(rows) == [i \in 1..Len(rows) |-> OwnKeys(rows[i])]

\* an uploaded sheet goes to the workbook with its columns beyond the
\* seventh as they are: header and values unchanged, no style, no column
\* added or dropped
CarriedInPlace(g, ws) ==
    /\ \A r \in 1..Len(g) :
          \A c \in (MAX_COL + 1)..Len(g[r]) :
              /\ c <= Len(ws.rows[r])
              /\ ws.rows[r][c] = ValueCell(g[r][c])
    /\ ColumnsOf(g) > MAX_COL => ColumnsOf(ws.rows) = ColumnsOf(g)

\* an uploaded sheet goes to the workbook row by row, each row whole: a
\* row that starts with a value in its own columns, a row whose first cell
\* is empty one column to the left. The cells written beyond column 7 hold
\* their value and have no style; the eighth value of a row written to the
\* left stands in column 7, formatted as that column is (a labelled link as
\* a hyperlink in a data row); the sheet is as wide as the widest row as
\* written
CarriedThrough(g, ws) ==
    /\ \A r \in 1..Len(g) :
          /\ \A c \in (MAX_COL + 1)..WrittenLength(g[r]) :
                /\ c <= Len(ws.rows[r])
                /\ ws.rows[r][c] = ValueCell(WrittenValue(g, r, c))
          /\ Len(ws.rows[r]) <= Max(MAX_COL, WrittenLength(g[r]))
          /\ (FirstCellEmpty(g[r]) /\ Len(g[r]) > MAX_COL) =>
                /\ ws.rows[r][MAX_COL].border = "thin"
                /\ ws.rows[r][MAX_COL].value =
                      IF r = 1 THEN g[r][MAX_COL + 1]
                      ELSE ShownValue(g[r][MAX_COL + 1], MAX_COL)
    /\ WrittenColumns(g) > MAX_COL => ColumnsOf(ws.rows) = WrittenColumns(g)
ProcessCarriesThrough ==
    Processed => \A s \in 1..Len(Sources) : CarriedThrough(Sources[s].grid, workbook[s])

\* C18 (amended): POST /api/excel/process writes every uploaded row whole,
\* in its own columns or, when its first cell is empty, one column to the
\* left; what is written beyond column 7 is carried through, unchanged and
\* without formatting; POST /api/excel/create keeps the first seven keys
\* of the first row only, so that no sheet it builds has a cell beyond
\* column 7
C18_CarriedInProcessCutInCreate ==
    /\ ProcessCarriesThrough
    /\ (Answered /\ response.sent) =>
          \A s \in 1..Len(workbook) :
              \A r \in 1..Len(workbook[s].rows) : Len(workbook[s].rows[r]) = MAX_COL

\* an uploaded sheet of eight columns, a labelled link in column 8 of both
\* data rows: in the first row the cell is in the workbook, not a hyperlink
\* and without style; the second row, whose first cell is empty, has seven
\* cells, and the link is a hyperlink in column 7
C18_Witness ==
    /\ Processed
    /\ Len(Sources) = 1
    /\ Sources[1].grid = <<WideHeader, WideGridRowA, WideGridRowC>>
    /\ workbook[1].rows[1][8] = ValueCell(Str(S_X))
    /\ workbook[1].rows[2][8] = ValueCell(Str(S_DecreeLink))
    /\ Len(workbook[1].rows[2]) = 8
    /\ Len(workbook[1].rows[3]) = MAX_COL
    /\ workbook[1].rows[3][MAX_COL].value = Link(<<68>>, S_BareLink)
    /\ workbook[1].rows[3][MAX_COL].font = "link"

\* C18 (as stated): in both endpoints an input of more than 7 columns gives
\* a sheet with the same number of columns, the columns beyond the seventh
\* unchanged
C18_CarriedThroughInBoth ==
    /\ Processed =>
          \A s \in 1..Len(Sources) : CarriedInPlace(Sources[s].grid, workbook[s])
    /\ (Answered /\ response.sent /\ req.shape = "array") =>
          LET rows == KeysOfRows(req.sheets[1].data.rows)
          IN  ColumnsOf(rows) > MAX_COL => ColumnsOf(workbook[1].rows) = ColumnsOf(rows)

---------------------------------------------------------------------------
(* Properties of the styles *)

\* the fill of the cells of columns 1..7 of a row, and of the later ones
FillIs(row, fill) ==
    /\ \A c \in 1..Min(MAX_COL, Len(row)) : row[c].fill = fill
    /\ \A c \in (MAX_COL + 1)..Len(row) : row[c].fill = "none"
\* the data rows of a sheet built by POST /api/excel/create follow the
\* groups: "gray" for the groups of odd index, counted from 0
GroupFills(visitedOnly) ==
    SheetBuilt =>
        \A g \in 1..Len(grp.idGroups) :
            \A i \in grp.idGroups[g].span[1]..grp.idGroups[g].span[2] :
                LET row == LastSheet.rows[i + 2]
                IN  FillIs(row, IF (g - 1) % 2 = 1 /\ (visitedOnly => HasValues(row))
                                THEN "gray" ELSE "none")
\* the data rows of a sheet of POST /api/excel/process follow the parity
\* of the sheet row number
ParityFills(visitedOnly) ==
    Processed =>
        \A s \in 1..Len(workbook) :
            \A r \in 2..Len(workbook[s].rows) :
                LET row == workbook[s].rows[r]
                IN  FillIs(row, IF r % 2 = 0 /\ (visitedOnly => HasValues(row))
                                THEN "gray" ELSE "none")

\* C21 (amended): among the data rows that hold a value, with grouping
\* metadata the rows of the groups of even index keep the default
\* background and those of the groups of odd index are light gray in
\* columns 1..7; without it the rows of even sheet row number are light
\* gray and the others keep the default; a row without any value gets no
\* fill; no cell beyond column 7 gets a fill
C21_FillsOfVisitedRows == GroupFills(TRUE) /\ ParityFills(TRUE)

\* IDs 1, 2, 2: sheet row 2 keeps the default, rows 3 and 4 (the second
\* group) are gray
C21_Witness ==
    /\ Answered /\ response.sent
    /\ req.shape = "array"
    /\ req.sheets[1].data.rows = <<Row(1, S_A), Row(2, S_A), Row(2, S_Jia)>>
    /\ [r \in 1..3 |-> workbook[1].rows[r + 1][2].fill] = <<"none", "gray", "gray">>
    /\ [r \in 1..3 |-> workbook[1].rows[r + 1][7].fill] = <<"none", "gray", "gray">>

\* C21 (as stated): every row of a group of odd index is light gray, and
\* without grouping metadata every row of even sheet row number is
C21_FillsOfEveryRow == GroupFills(FALSE) /\ ParityFills(FALSE)

\* the font of the data rows of a sheet built by POST /api/excel/create:
\* a secondary-language row has the secondary-language colour in columns
\* 2..7 (the hyperlink cells excepted, or not) and not in column 1; a
\* primary-language row has it nowhere
ChineseFonts(visitedOnly, linksExcepted) ==
    SheetBuilt =>
        \A i \in 1..Len(grp.sortedData) :
            LET row == LastSheet.rows[i + 1]
            IN  IF IsChineseRow(grp.sortedData[i])
                THEN /\ row[1].font # "chinese"
                     /\ (visitedOnly => HasValues(row)) =>
                           \A c \in 2..MAX_COL :
                               IF linksExcepted /\ row[c].value.t = "hyperlink"
                               THEN row[c].font = "link"
                               ELSE row[c].font = "chinese"
                ELSE \A c \in 1..Len(row) : row[c].font # "chinese"

\* C22 (amended): a secondary-language data row that holds a value has the
\* secondary-language colour on its cells of columns 2..7, except the
\* cells turned into hyperlinks, which have the link font; its column-1
\* cell never has that colour, and no cell of a primary-language row has
C22_ChineseFontButLinks == ChineseFonts(TRUE, TRUE)

\* a secondary-language row of eight keys with " http://e" in column 6 and
\* "D http://e" in column 7: column 7 is a hyperlink in the link font, the
\* columns 2..6 have the secondary-language colour, column 1 has not
C22_Witness ==
    /\ SheetBuilt
    /\ grp.sortedData = <<WideRowB>>
    /\ [c \in 1..MAX_COL |-> LastSheet.rows[2][c].font] =
          <<"none", "chinese", "chinese", "chinese", "chinese", "chinese", "link">>
    /\ LastSheet.rows[2][7].value = Link(<<68>>, S_BareLink)

\* C22 (as stated): every secondary-language data row has the colour on
\* all its cells of columns 2..7
C22_ChineseFontOnAll == ChineseFonts(FALSE, FALSE)

---------------------------------------------------------------------------
(* Properties of the column widths *)

\* the length of the text of a cell value, an empty cell counting 0
TextLength(v) == IF v.t \in {"null", "undefined"} THEN 0 ELSE Len(ValueToString(v))
\* the longest text of column c when the widths are computed: column A
\* as it is renumbered, the other columns as they were given
LengthsIn(c) ==
    IF c = 1
    THEN {TextLength(SheetValue(workbook[1], r, 1)) : r \in 1..Len(workbook[1].rows)} \cup {0}
    ELSE {TextLength(SheetValue(req.ws, r, c)) : r \in 1..Len(req.ws.rows)} \cup {0}
Longest(c) == CHOOSE n \in LengthsIn(c) : \A k \in LengthsIn(c) : k <= n
Clamped(c) == Min(Max(Longest(c) + 2, 10), 50)

\* C23: the width of each of columns 1..7 is min(max(L + 2, 10), 50), L
\* the longest text of the column; column 5 has that value times 1.5,
\* rounded (halves upwards); so the widths are in 10..50, and in 15..75
\* for column 5
C23_ColumnWidths ==
    Formatted =>
        \A c \in 1..MAX_COL :
            LET width == workbook[1].widths[c]
            IN  IF c = 5
                THEN /\ 2 * width - 3 * Clamped(c) \in {0, 1}
                     /\ width \in 15..75
                ELSE /\ width = Clamped(c)
                     /\ width \in 10..50

\* a text of 60 letters in columns 2 and 5, "D http://e" in column 6:
\* widths 50, 75 and 12; "http://e" in column 7: width 10
C23_Witness ==
    /\ Formatted
    /\ Len(req.ws.rows) = 2
    /\ [c \in 1..8 |-> SheetValue(req.ws, 2, c)] = LongGridRow
    /\ [c \in 1..MAX_COL |-> workbook[1].widths[c]] = <<10, 50, 10, 10, 75, 12, 10>>

---------------------------------------------------------------------------
(* Properties of repeated formatting *)

\* C24 (as stated): a second call of formatWorksheet with the same
\* grouping metadata ends normally and leaves the worksheet as the first
\* call left it
C24_TwiceIsOnce ==
    endpoint = "formatWorksheet" =>
        /\ pc # "threw"
        /\ pc = "twice" => workbook[2] = workbook[1]

---------------------------------------------------------------------------
(* Properties of the language classification *)

\* a code point of the CJK Unified Ideographs block
IsCJK(c) == c \in 19968..40959
\* a text, or a text or a key anywhere inside a list or an object, has such
\* a code point
RECURSIVE ValueHasCJK(_)
ValueHasCJK(v) ==
    CASE v.t = "string" -> \E j \in 1..Len(v.s) : IsCJK(v.s[j])
      [] v.t = "array" -> \E i \in 1..Len(v.c) : ValueHasCJK(v.c[i])
      [] v.t = "object" ->
            \E i \in 1..Len(v.c) :
                \/ \E j \in 1..Len(v.c[i].k) : IsCJK(v.c[i].k[j])
                \/ ValueHasCJK(v.c[i].v)
      [] OTHER -> FALSE
\* a key of the row, or one of its values, has such a code point
RowHasCJK(row) == ValueHasCJK(row)

\* C25: a row is marked secondary-language exactly when a CJK code point
\* occurs in its serialized text, that is in one of its keys or in one of
\* its values
C25_ClassifiedBySerializedText ==
    Grouped =>
        \A i \in 1..Len(grp.sortedData) :
            ((i - 1) \in grp.chineseRows) <=> RowHasCJK(grp.sortedData[i])

\* the row {"ID":1,"\u7532":"A"}: no CJK character in a value, one in a
\* key; it is marked
C25_Witness ==
    /\ Grouped
    /\ grp.sortedData = <<RowNoID(S_A), KeyJiaRow>>
    /\ ~IsChineseRowByValues(KeyJiaRow)
    /\ grp.chineseRows = {1}

---------------------------------------------------------------------------
(* Properties of the columns of POST /api/excel/create *)

\* the first seven keys of a row, in their order: the keys of a row
\* object, the indices of a list or of a text
FirstKeys(row) ==
    LET keys == IF row.t = "object" THEN [i \in 1..Len(row.c) |-> row.c[i].k] ELSE OwnKeys(row)
    IN  [i \in 1..Min(7, Len(keys)) |-> keys[i]]
\* the empty string for a value that is null or undefined
OrEmpty(v) == IF v.t \in {"null", "undefined"} THEN Str(<<>>) ELSE v
\* the value a row has for a key, own or else inherited from its
\* prototypes, the empty string when it has none
ValueFor(row, key) ==
    IF row.t # "object" THEN OrEmpty(GetValue(row, key))
    ELSE IF \E i \in 1..Len(row.c) : row.c[i].k = key
    THEN OrEmpty((CHOOSE p \in {row.c[i] : i \in 1..Len(row.c)} : p.k = key).v)
    ELSE IF key \in ObjectPrototypeNames THEN Inherited(key)
    ELSE Str(<<>>)
\* the worksheet with the labels of the keys of `first` as header and one
\* row of values per row of `rows`
SheetOfKeys(name, first, rows) ==
    LET keys == FirstKeys(first)
        header == [c \in 1..Len(keys) |-> ValueCell(getBilingualHeader(keys[c]))]
        lines == [i \in 1..Len(rows) |->
                    [c \in 1..Len(keys) |-> ValueCell(ValueFor(rows[i], keys[c]))]]
    IN  [name |-> name, rows |-> <<header>> \o lines, merges |-> {},
         widths |-> <<>>, headerHeight |-> 0]
\* the sheet just built is that worksheet, formatted
BuiltFromKeysOf(first) ==
    LastSheet = formatWorksheet(SheetOfKeys(lastAdd.name, first, grp.sortedData),
                                grp.idGroups, grp.chineseRows)

\* C26 (amended): the columns of a sheet are the first 7 keys, in their
\* order, of the first row after grouping and sorting; each data row
\* holds, for each of these keys in that order, the row's value for the
\* key, or an empty string when the row has none; this is the worksheet
\* that is then formatted
C26_ColumnsOfFirstSortedRow == SheetBuilt => BuiltFromKeysOf(grp.sortedData[1])

\* the rows {"ID":1,"Name":"\u7532"}, {"Name":"A","ID":1}: the second row
\* is sorted first and the columns are Name, ID
C26_Witness ==
    /\ SheetBuilt
    /\ grp.data = <<Row(1, S_Jia), Obj(<<Prop(S_Name, Str(S_A)), Prop(S_ID, Num(1))>>)>>
    /\ LastSheet.rows[1][1].value = Str(S_Name)
    /\ LastSheet.rows[1][2].value = Str(S_STT_LABEL)
    /\ LastSheet.rows[3][1].value = Str(S_Jia)
    /\ LastSheet.rows[3][2].value = Num(1)

\* C26 (as stated): the columns are the first 7 keys of the first row as
\* supplied in the payload
C26_ColumnsOfFirstSuppliedRow == SheetBuilt => BuiltFromKeysOf(grp.data[1])

---------------------------------------------------------------------------
(* Properties of requests served at the same time *)

\* the handler of q served alone, as a function of q: where it stops and
\* the workbook it holds then
RunAlone(q) == IF q.endpoint = "create" THEN CreateRun(q.body) ELSE ProcessRun(q.body)
\* the response of q served alone, writeBuffer settling as given when the
\* handler comes to await it
Alone(q, settled) ==
    LET run == RunAlone(q)
        out == AnswerOf(AfterAwait(run, settled))
    IN  [status |-> out.status, sent |-> out.status = 200, buffer |-> out.workbook,
         settled |-> IF run.status = 200 THEN settled ELSE "none"]
\* the response of request i and the workbook its handler leaves, in the
\* server srv, are those of the request served alone
AsAlone(srv, i) ==
    /\ srv.responses[i].settled \in {"none", "bytes", "rejected"}
    /\ srv.responses[i] = Alone(srv.requests[i], srv.responses[i].settled)
    /\ srv.refs[i] # 0 =>
          srv.heap[srv.refs[i]] =
              AfterAwait(RunAlone(srv.requests[i]), srv.responses[i].settled).workbook

\* no two requests hold the same workbook, and the dictionary is as it was
Isolated ==
    server # NoServer =>
        /\ dictionary = BILINGUAL_HEADERS
        /\ \A i, j \in 1..MaxRequests :
              (i # j /\ server.refs[i] # 0) => server.refs[i] # server.refs[j]
        /\ \A i \in 1..MaxRequests :
              server.at[i] = "done" <=> server.responses[i].status \in {200, 400, 500}

\* a step leaves the workbook of every request whose handler does not run
\* as it is
OwnWorkbookOnly ==
    \A i \in 1..MaxRequests :
        (server.refs[i] # 0 /\ server.running # i /\ server'.running # i) =>
            server'.heap[server.refs[i]] = server.heap[server.refs[i]]

\* the response a step gives, and the workbook the handler leaves, are
\* those of the request served alone; a response given stays as it is
AnsweredAsAlone ==
    \A i \in 1..MaxRequests :
        /\ (server.at[i] # "done" /\ server'.at[i] = "done") => AsAlone(server', i)
        /\ server.at[i] = "done" =>
              /\ server'.at[i] = "done"
              /\ server'.responses[i] = server.responses[i]
              /\ server'.refs[i] = server.refs[i]

\* C27: under every interleaving of the handlers of requests served at the
\* same time, each request works on a workbook of its own, its response
\* is the one it gets when served alone, and the header dictionary is
\* never modified
C27_RequestsIsolated ==
    /\ []Isolated
    /\ [][OwnWorkbookOnly /\ AnsweredAsAlone /\ dictionary' = dictionary]_vars

\* two requests for a spreadsheet, the handler of the second run while the
\* first awaited: two workbooks, and each response carries its own
C27_Witness ==
    /\ server # NoServer
    /\ server.requests[1].endpoint = "create" /\ server.requests[2].endpoint = "process"
    /\ server.at = <<"done", "done">>
    /\ server.overlapped[2]
    /\ server.refs = <<1, 2>>
    /\ server.responses[1].sent /\ server.responses[2].sent
    /\ server.responses[1].buffer = server.heap[1]
    /\ server.responses[2].buffer = server.heap[2]
    /\ server.heap[1] # server.heap[2]

\* the step-by-step handlers and the handlers as functions agree: on the
\* status and on the workbook the handler holds when it has answered
HandlersAsFunctions ==
    pc = "done" =>
        [status |-> response.status, workbook |-> workbook] =
            AfterAwait(IF endpoint = "create" THEN CreateRun(req) ELSE ProcessRun(req),
                       outputBuffer)

---------------------------------------------------------------------------
(* Properties of the sequence column *)

\* sub occurs in s
Occurs(s, sub) == \E k \in 1..(Len(s) - Len(sub) + 1) : SubSeq(s, k, k + Len(sub) - 1) = sub
\* the lower-cased text of cell A1 of the worksheet given to formatWorksheet
GivenA1 ==
    IF req.ws.rows # <<>> /\ req.ws.rows[1] # <<>> /\ req.ws.rows[1][1].value.t = "string"
    THEN ToLowerCase(req.ws.rows[1][1].value.s) ELSE <<>>
IdentifierLike == Occurs(GivenA1, S_id) \/ Occurs(GivenA1, S_stt) \/ Occurs(GivenA1, S_xuhao)
\* the number of data rows with a value, up to row r of the given worksheet
GivenRank(r) == Cardinality({q \in 2..r : HasValues(req.ws.rows[q])})

\* C28: when the lower-cased text of A1 contains "id", "stt" or the CJK
\* token, A1 becomes the bilingual sequence label and column A is
\* rewritten (1, 2, ... down the data rows that hold a value, or the
\* group number at the first row of each group); when it does not, no
\* value of column A changes and nothing is merged, with or without
\* grouping metadata
C28_RelabelExactlyWhenIdentifierLike ==
    Formatted =>
        IF IdentifierLike
        THEN /\ workbook[1].rows[1][1].value = Str(S_STT_LABEL)
             /\ IF req.idGroups = <<>>
                THEN \A r \in 2..Len(req.ws.rows) :
                        HasValues(req.ws.rows[r]) =>
                            workbook[1].rows[r][1].value = Num(GivenRank(r))
                ELSE \A g \in 1..Len(req.idGroups) :
                        workbook[1].rows[req.idGroups[g].span[1] + 2][1].value = Num(g)
        ELSE /\ \A r \in 1..Len(workbook[1].rows) :
                    SheetValue(workbook[1], r, 1) = SheetValue(req.ws, r, 1)
             /\ workbook[1].merges = req.ws.merges

\* A1 is "Video", no grouping metadata, a blank row and a data row: A1 is
\* relabelled and the data row reads 1
C28_Witness ==
    /\ Formatted
    /\ GivenA1 = ToLowerCase(S_Video)
    /\ req.idGroups = <<>>
    /\ Len(req.ws.rows) = 3 /\ req.ws.rows[2] = <<>> /\ HasValues(req.ws.rows[3])
    /\ workbook[1].rows[1][1].value = Str(S_STT_LABEL)
    /\ workbook[1].rows[3][1].value = Num(1)

\* the groups of more than one row, and of one row
ManyRowGroups == {k \in 1..Len(grp.idGroups) : grp.idGroups[k].span[2] > grp.idGroups[k].span[1]}
OneRowGroups == {k \in 1..Len(grp.idGroups) : grp.idGroups[k].span[2] = grp.idGroups[k].span[1]}
Covers(m, r) == m[1] <= r /\ r <= m[2]

\* C29: with a sequence column, the k-th group's number stands at sheet
\* row start+2, column A is merged over rows start+2..end+2 exactly for the
\* groups of more than one row, the merged ranges are pairwise disjoint and
\* leave out row 1, and the merged ranges together with the rows of the
\* one-row groups cover every data row exactly once
C29_MergedRangesPartitionDataRows ==
    SequenceColumn =>
        LET G == grp.idGroups
            N == Len(grp.sortedData)
            M == LastSheet.merges
        IN  /\ \A k \in 1..Len(G) : LastSheet.rows[G[k].span[1] + 2][1].value = Num(k)
            /\ M = {<<G[k].span[1] + 2, G[k].span[2] + 2>> : k \in ManyRowGroups}
            /\ \A m \in M : m[1] >= 2 /\ m[1] < m[2] /\ m[2] <= N + 1
            /\ \A m1 \in M : \A m2 \in M :
                  m1 # m2 => ~ \E r \in 1..(N + 1) : Covers(m1, r) /\ Covers(m2, r)
            /\ \A r \in 2..(N + 1) :
                  Cardinality({m \in M : Covers(m, r)})
                    + Cardinality({k \in OneRowGroups : G[k].span[1] + 2 = r}) = 1
            /\ Len(LastSheet.rows) = N + 1

\* IDs 1,2,1: rows 2..3 are merged and read 1, row 4 stands alone and
\* reads 2
C29_Witness ==
    /\ SequenceColumn
    /\ Len(grp.idGroups) = 2
    /\ ManyRowGroups = {1} /\ OneRowGroups = {2}
    /\ LastSheet.merges = {<<2, 3>>}
    /\ LastSheet.rows[2][1].value = Num(1)
    /\ LastSheet.rows[4][1].value = Num(2)

---------------------------------------------------------------------------
(* Properties of the marked rows *)

\* C30: chineseRows holds i exactly when sortedData[i] is classified
\* secondary-language, so it lies within 0..N-1; within the span of each
\* group its indices are a suffix of the span; and sheet row r of the built
\* sheet holds the values of sortedData[r - 2], the row that the
\* formatter's index r - 2 looks up in chineseRows
C30_MarkedRowsAlignWithSheetRows ==
    Grouped =>
        LET N == Len(grp.sortedData)
            G == grp.idGroups
            keys == FirstKeys(grp.sortedData[1])
        IN  /\ grp.chineseRows = {i \in 0..(N - 1) : IsChineseRow(grp.sortedData[i + 1])}
            /\ \A k \in 1..Len(G) :
                  \A i \in G[k].span[1]..G[k].span[2] :
                      i \in grp.chineseRows =>
                          \A j \in i..G[k].span[2] : j \in grp.chineseRows
            /\ SheetBuilt =>
                  /\ Len(LastSheet.rows) = N + 1
                  /\ \A r \in 2..(N + 1) :
                        /\ \A c \in 2..Len(keys) :
                              /\ SheetValue(LastSheet, r, c) =
                                    ShownValue(ValueFor(grp.sortedData[r - 1], keys[c]), c)
                              /\ (LastSheet.rows[r][c].font = "chinese")
                                    <=> /\ (r - 2) \in grp.chineseRows
                                        /\ LastSheet.rows[r][c].value.t # "hyperlink"
                        /\ \A c \in (Len(keys) + 1)..Len(LastSheet.rows[r]) :
                              SheetValue(LastSheet, r, c) = Null

\* the rows (1, CJK), (1, A), (2, CJK): sorted (1, A), (1, CJK), (2, CJK),
\* chineseRows {1, 2}, and sheet rows 3 and 4 carry the CJK names in the
\* secondary-language colour
C30_Witness ==
    /\ SheetBuilt
    /\ grp.data = <<Row(1, S_Jia), Row(1, S_A), Row(2, S_Jia)>>
    /\ grp.chineseRows = {1, 2}
    /\ [r \in 2..4 |-> LastSheet.rows[r][2].value] =
          [r \in 2..4 |-> IF r = 2 THEN Str(S_A) ELSE Str(S_Jia)]
    /\ [r \in 2..4 |-> LastSheet.rows[r][2].font = "chinese"] =
          [r \in 2..4 |-> r # 2]
=============================================================================
